---- MODULE Spec2Model ----
(***************************************************************************)
(* Packet views (decoders) and builders (encoders) of the thunda stack:   *)
(* EthernetFrame, ArpPacket, IPv4Packet, IPv6Packet over a borrowed octet  *)
(* buffer.  A buffer is a sequence of octets; Rust's 0-based index i is    *)
(* position i+1 of the sequence.  Every operation yields a record          *)
(*   [tag |-> "ok", val |-> v]       a returned value or Ok(v)             *)
(*   [tag |-> "err", val |-> e]      Err(e)                                *)
(*   [tag |-> "panic", val |-> m]    the thread panicked (index out of     *)
(*                                   bounds, explicit panic!)              *)
(***************************************************************************)
EXTENDS Integers, Sequences, FiniteSets, TLC

VARIABLES
    layer,    \* the component the buffer was handed to
    buffer,   \* the octets of the borrowed buffer
    view,     \* "none", or how the view over the buffer was constructed
    op,       \* the last operation called, with its argument
    result,   \* what that operation returned
    window    \* the payload window the builder has handed out, if any

vars == << layer, buffer, view, op, result, window >>

(***************************************************************************)
(* Bounds of the model.                                                    *)
(***************************************************************************)
\* octets a generated IPv4 / IPv6 input may carry after its fixed header
MaxTail == 6
\* octets a builder's buffer may carry after the 40-octet IPv6 header
MaxBuilderTail == 2

(***************************************************************************)
(* Results and machine arithmetic.                                         *)
(***************************************************************************)
Ok(v) == [tag |-> "ok", val |-> v]
Err(e) == [tag |-> "err", val |-> e]
Panic(m) == [tag |-> "panic", val |-> m]
None == [tag |-> "none", val |-> "none"]
OutOfBounds == Panic("index out of bounds")
Unit == "()"

IsOk(r) == r.tag = "ok"
IsErr(r) == r.tag = "err"
IsPanic(r) == r.tag = "panic"

RECURSIVE BitAnd(_, _)
BitAnd(a, b) ==
    IF a = 0 \/ b = 0 THEN 0
    ELSE (a % 2) * (b % 2) + 2 * BitAnd(a \div 2, b \div 2)

RECURSIVE BitOr(_, _)
BitOr(a, b) ==
    IF a = 0 THEN b
    ELSE IF b = 0 THEN a
    ELSE (IF a % 2 = 1 \/ b % 2 = 1 THEN 1 ELSE 0) + 2 * BitOr(a \div 2, b \div 2)

Shr(a, n) == a \div (2 ^ n)
\* a << n on a u8: the bits shifted past bit 7 are lost
Shl8(a, n) == (a * (2 ^ n)) % 256
\* a << n on a u32 or usize holding an octet, n <= 16: no bit is lost
Shl32(a, n) == a * (2 ^ n)

\* self.buffer[i]
At(buf, i) == buf[i + 1]
\* &self.buffer[a..b], defined when a <= b <= len
Slice(buf, a, b) == SubSeq(buf, a + 1, b)
\* u16::from_be_bytes
FromBe16(hi, lo) == hi * 256 + lo

(***************************************************************************)
(* parsers/ipv4.rs: IPv4Packet                                             *)
(***************************************************************************)
IPv4_read_u16(buf, start) ==
    IF Len(buf) < start + 2 THEN Err("ParsingError::BufferUnderflow")
    ELSE IF start + 2 <= Len(buf)
         THEN Ok(FromBe16(At(buf, start), At(buf, start + 1)))
         ELSE Err("ParsingError::InvalidPacketLength")

IPv4_version(buf) ==
    IF Len(buf) > 0 THEN Ok(Shr(At(buf, 0), 4)) ELSE OutOfBounds

IPv4_ihl(buf) ==
    IF Len(buf) > 0 THEN Ok(BitAnd(At(buf, 0), 15) * 4) ELSE OutOfBounds

IPv4_dscp(buf) ==
    IF Len(buf) > 1 THEN Ok(Shr(At(buf, 1), 2)) ELSE OutOfBounds

IPv4_ecn(buf) ==
    IF Len(buf) > 1 THEN Ok(BitAnd(At(buf, 1), 3)) ELSE OutOfBounds

IPv4_total_length(buf) == IPv4_read_u16(buf, 2)

IPv4_identification(buf) == IPv4_read_u16(buf, 4)

IPv4_dont_frag(buf) ==
    LET fo == IPv4_read_u16(buf, 6)
    IN  IF IsErr(fo) THEN fo ELSE Ok(BitAnd(fo.val, 16384) > 0)

IPv4_more_frags(buf) ==
    LET fo == IPv4_read_u16(buf, 6)
    IN  IF IsErr(fo) THEN fo ELSE Ok(BitAnd(fo.val, 8192) > 0)

IPv4_fragment_offset(buf) ==
    LET fo == IPv4_read_u16(buf, 6)
    IN  IF IsErr(fo) THEN fo ELSE Ok(BitAnd(fo.val, 8191))

IPv4_ttl(buf) ==
    IF Len(buf) > 8 THEN Ok(At(buf, 8)) ELSE OutOfBounds

IPv4_protocol(buf) ==
    IF Len(buf) > 9 THEN Ok(At(buf, 9)) ELSE OutOfBounds

IPv4_checksum(buf) == IPv4_read_u16(buf, 10)

\* address::ipv4::from_bytes
ipv4_from_bytes(data) ==
    IF Len(data) # 4 THEN Err("IPv4AddressError::InvalidLength") ELSE Ok(data)

IPv4_src_addr(buf) ==
    IF Len(buf) < 16 THEN OutOfBounds ELSE ipv4_from_bytes(Slice(buf, 12, 16))

IPv4_dst_addr(buf) ==
    IF Len(buf) < 20 THEN OutOfBounds ELSE ipv4_from_bytes(Slice(buf, 16, 20))

\* options that run to the end of the buffer instead of the header length
IPv4_options_to_end(buf) ==
    LET ihl == IPv4_ihl(buf)
    IN  IF IsPanic(ihl) THEN ihl
        ELSE IF ihl.val > 20
             THEN IF ihl.val <= Len(buf) THEN Ok(Slice(buf, 20, Len(buf)))
                  ELSE OutOfBounds
             ELSE Ok(<< >>)

IPv4_options(buf) ==
    LET ihl == IPv4_ihl(buf)
    IN  IF IsPanic(ihl) THEN ihl
        ELSE IF ihl.val > 20
             THEN IF ihl.val <= Len(buf) THEN Ok(Slice(buf, 20, ihl.val))
                  ELSE OutOfBounds
             ELSE Ok(<< >>)

\* payload that runs to the end of the buffer instead of total_length
IPv4_payload_to_end(buf) ==
    LET ihl == IPv4_ihl(buf)
        tl  == IPv4_total_length(buf)
    IN  IF IsPanic(ihl) THEN ihl
        ELSE IF IsErr(tl) THEN tl
        ELSE IF ihl.val > tl.val \/ ihl.val < 20 \/ tl.val > Len(buf)
             THEN Err("ParsingError::InvalidPacketLength")
             ELSE Ok(Slice(buf, ihl.val, Len(buf)))

IPv4_payload(buf) ==
    LET ihl == IPv4_ihl(buf)
        tl  == IPv4_total_length(buf)
    IN  IF IsPanic(ihl) THEN ihl
        ELSE IF IsErr(tl) THEN tl
        ELSE IF ihl.val > tl.val \/ ihl.val < 20 \/ tl.val > Len(buf)
             THEN Err("ParsingError::InvalidPacketLength")
             ELSE Ok(Slice(buf, ihl.val, tl.val))

IPv4_key(buf) ==
    LET id  == IPv4_identification(buf)
        src == IPv4_src_addr(buf)
        dst == IPv4_dst_addr(buf)
        pro == IPv4_protocol(buf)
    IN  IF ~IsOk(id) THEN id
        ELSE IF ~IsOk(src) THEN src
        ELSE IF ~IsOk(dst) THEN dst
        ELSE IF ~IsOk(pro) THEN pro
        ELSE Ok([id |-> id.val, src_addr |-> src.val,
                 dst_addr |-> dst.val, protocol |-> pro.val])

\* check_length with the header-length test moved ahead of the total-length test
IPv4_check_length_reordered(buf) ==
    LET len == Len(buf)
        tl  == IPv4_total_length(buf)
        ihl == IPv4_ihl(buf)
    IN  IF len < 20 THEN Err("ValidationError::InvalidHeaderLength")
        ELSE IF IsErr(tl) THEN tl
        ELSE IF ihl.val < 20 \/ ihl.val > tl.val
             THEN Err("ValidationError::InvalidHeaderLength")
        ELSE IF tl.val > len
             THEN Err("ValidationError::TotalLengthExceedsBufferLength")
        ELSE Ok(Unit)

IPv4_check_length(buf) ==
    LET len == Len(buf)
        tl  == IPv4_total_length(buf)
        ihl == IPv4_ihl(buf)
    IN  IF len < 20 THEN Err("ValidationError::InvalidHeaderLength")
        ELSE IF IsErr(tl) THEN tl
        ELSE IF tl.val > len
             THEN Err("ValidationError::TotalLengthExceedsBufferLength")
        ELSE IF ihl.val < 20 \/ ihl.val > tl.val
             THEN Err("ValidationError::InvalidHeaderLength")
        ELSE Ok(Unit)

\* the word added without the fold
ChecksumStep_nofold(sum, word) == sum + word

\* one iteration of the loop of verify_checksum: add the word, fold the carry
ChecksumStep(sum, word) ==
    LET s == sum + word
    IN  IF s > 65535 THEN BitAnd(s, 65535) + Shr(s, 16) ELSE s

\* the stored checksum read like any other word
ChecksumWord_stored(buf, i) == FromBe16(At(buf, i), At(buf, i + 1))

\* the word the loop of verify_checksum reads at offset i
ChecksumWord(buf, i) ==
    IF i = 10 THEN 0 ELSE FromBe16(At(buf, i), At(buf, i + 1))

\* the loop of verify_checksum from offset i on, over (0..ihl).step_by(2)
RECURSIVE ChecksumLoop(_, _, _, _)
ChecksumLoop(buf, i, ihl, sum) ==
    IF i >= ihl THEN sum
    ELSE ChecksumLoop(buf, i + 2, ihl, ChecksumStep(sum, ChecksumWord(buf, i)))

\* a header that fills the whole buffer refused
IPv4_verify_checksum_strict(buf) ==
    LET ihl == IPv4_ihl(buf)
    IN  IF IsPanic(ihl) THEN ihl
        ELSE IF ihl.val < 20 \/ ihl.val >= Len(buf)
             THEN Err("ValidationError::InvalidHeaderLength")
             ELSE Ok(ChecksumLoop(buf, 0, ihl.val, 0) = 65535)

IPv4_verify_checksum(buf) ==
    LET ihl == IPv4_ihl(buf)
    IN  IF IsPanic(ihl) THEN ihl
        ELSE IF ihl.val < 20 \/ ihl.val > Len(buf)
             THEN Err("ValidationError::InvalidHeaderLength")
             ELSE Ok(ChecksumLoop(buf, 0, ihl.val, 0) = 65535)

(***************************************************************************)
(* parsers/ipv6.rs: IPv6Packet                                             *)
(***************************************************************************)
IPv6_header_length == 40

IPv6_read_u16(buf, start) ==
    IF Len(buf) < start + 2 THEN Err("ParsingError::BufferUnderflow")
    ELSE IF start + 2 <= Len(buf)
         THEN Ok(FromBe16(At(buf, start), At(buf, start + 1)))
         ELSE Err("ParsingError::InvalidPacketLength")

IPv6_version(buf) ==
    IF Len(buf) > 0 THEN Ok(Shr(At(buf, 0), 4)) ELSE OutOfBounds

IPv6_traffic_class(buf) ==
    IF Len(buf) > 1
    THEN Ok(BitOr(Shl8(BitAnd(At(buf, 0), 15), 4), Shr(At(buf, 1), 4)))
    ELSE OutOfBounds

IPv6_flow_label(buf) ==
    IF Len(buf) > 3
    THEN Ok(BitOr(BitOr(Shl32(BitAnd(At(buf, 1), 15), 16), Shl32(At(buf, 2), 8)),
                  At(buf, 3)))
    ELSE OutOfBounds

IPv6_payload_length(buf) == IPv6_read_u16(buf, 4)

IPv6_total_length(buf) ==
    LET pl == IPv6_payload_length(buf)
    IN  IF IsErr(pl) THEN pl ELSE Ok(IPv6_header_length + pl.val)

IPv6_next_header(buf) ==
    IF Len(buf) > 6 THEN Ok(At(buf, 6)) ELSE OutOfBounds

IPv6_hop_limit(buf) ==
    IF Len(buf) > 7 THEN Ok(At(buf, 7)) ELSE OutOfBounds

\* address::ipv6::from_bytes
ipv6_from_bytes(data) ==
    IF Len(data) # 16 THEN Err("Ipv6AddressError::InvalidLength") ELSE Ok(data)

IPv6_source(buf) ==
    IF Len(buf) < 24 THEN OutOfBounds ELSE ipv6_from_bytes(Slice(buf, 8, 24))

IPv6_destination(buf) ==
    IF Len(buf) < 40 THEN OutOfBounds ELSE ipv6_from_bytes(Slice(buf, 24, 40))

\* len < 40 || len < self.total_length()? : the right operand, and its `?',
\* is evaluated only when the buffer holds at least 40 octets
\* check_length that reads total_length before it tests the 40-octet minimum
IPv6_check_length_eager(buf) ==
    LET len == Len(buf)
        tl  == IPv6_total_length(buf)
    IN  IF IsErr(tl) THEN tl
        ELSE IF len < 40 \/ len < tl.val
             THEN Err("ValidationError::InvalidPacketLength")
        ELSE Ok(Unit)

IPv6_check_length(buf) ==
    LET len == Len(buf)
        tl  == IPv6_total_length(buf)
    IN  IF len < 40 THEN Err("ValidationError::InvalidPacketLength")
        ELSE IF IsErr(tl) THEN tl
        ELSE IF len < tl.val THEN Err("ValidationError::InvalidPacketLength")
        ELSE Ok(Unit)

IPv6_payload(buf) ==
    LET tl == IPv6_total_length(buf)
    IN  IF IsErr(tl) THEN tl
        ELSE IF Len(buf) < tl.val THEN Err("ValidationError::InvalidPacketLength")
        ELSE Ok(Slice(buf, 40, Len(buf)))

(***************************************************************************)
(* parsers/ethernet.rs: EthernetFrame                                      *)
(***************************************************************************)
MIN_FRAME_SIZE == 14

Eth_header_length == MIN_FRAME_SIZE

\* the length test one octet too lenient
Eth_check_short(buf) ==
    IF Len(buf) < MIN_FRAME_SIZE - 1 THEN Err("ParsingError::BufferUnderflow")
    ELSE Ok(Unit)

Eth_check(buf) ==
    IF Len(buf) < MIN_FRAME_SIZE THEN Err("ParsingError::BufferUnderflow")
    ELSE Ok(Unit)

Eth_destination(buf) ==
    IF Len(buf) < 6 THEN OutOfBounds ELSE Ok(Slice(buf, 0, 6))

Eth_source(buf) ==
    IF Len(buf) < 12 THEN OutOfBounds ELSE Ok(Slice(buf, 6, 12))

Eth_ethertype(buf) ==
    IF Len(buf) < 14 THEN OutOfBounds ELSE Ok(FromBe16(At(buf, 12), At(buf, 13)))

Eth_payload(buf) ==
    IF Len(buf) < Eth_header_length THEN OutOfBounds
    ELSE Ok(Slice(buf, Eth_header_length, Len(buf)))

(***************************************************************************)
(* parsers/arp.rs: Hardware, Operation, ArpPacket                          *)
(***************************************************************************)
\* impl From<u16> for Hardware
Hardware_from(value) ==
    IF value = 1 THEN Ok("Hardware::Ethernet")
    ELSE Panic("Unsupported hardware type")

\* impl From<u16> for Operation
Operation_from(value) ==
    IF value = 1 THEN Ok("Operation::Request")
    ELSE IF value = 2 THEN Ok("Operation::Reply")
    ELSE Panic("Unsupported operation type")

Arp_check(buf) ==
    IF Len(buf) < 28 THEN Err("ParsingError::BufferUnderflow") ELSE Ok(Unit)

Arp_hardware_type(buf) ==
    IF Len(buf) < 2 THEN OutOfBounds ELSE Ok(FromBe16(At(buf, 0), At(buf, 1)))

Arp_protocol_type(buf) ==
    IF Len(buf) < 4 THEN OutOfBounds ELSE Ok(FromBe16(At(buf, 2), At(buf, 3)))

Arp_hardware_address_length(buf) ==
    IF Len(buf) < 5 THEN OutOfBounds ELSE Ok(At(buf, 4))

Arp_protocol_address_length(buf) ==
    IF Len(buf) < 6 THEN OutOfBounds ELSE Ok(At(buf, 5))

Arp_operation(buf) ==
    IF Len(buf) < 8 THEN OutOfBounds ELSE Ok(FromBe16(At(buf, 6), At(buf, 7)))

Arp_sender_hardware_address(buf) ==
    IF Len(buf) < 14 THEN OutOfBounds ELSE Ok(Slice(buf, 8, 14))

Arp_sender_protocol_address(buf) ==
    IF Len(buf) < 18 THEN OutOfBounds ELSE Ok(Slice(buf, 14, 18))

Arp_target_hardware_address(buf) ==
    IF Len(buf) < 24 THEN OutOfBounds ELSE Ok(Slice(buf, 18, 24))

Arp_target_protocol_address(buf) ==
    IF Len(buf) < 28 THEN OutOfBounds ELSE Ok(Slice(buf, 24, 28))

(***************************************************************************)
(* assemblers/ipv6.rs: the IPv6Packet builder over a mutable buffer.       *)
(* Each setter yields the buffer after the call, or the panic of its first *)
(* out-of-bounds index; the octets written before that index stay written. *)
(***************************************************************************)
\* self.buffer[i] = b
Put(buf, i, b) == [buf EXCEPT ![i + 1] = b]

\* self.buffer[a..a+len(data)].copy_from_slice(data)
PutSlice(buf, a, data) ==
    [k \in 1..Len(buf) |->
        IF k > a /\ k <= a + Len(data) THEN data[k - a] ELSE buf[k]]

Done(buf) == [tag |-> "ok", val |-> Unit, buf |-> buf]
Abort(buf) == [tag |-> "panic", val |-> "index out of bounds", buf |-> buf]

B6_set_version(buf, version) ==
    IF Len(buf) < 1 THEN Abort(buf)
    ELSE Done(Put(buf, 0, BitOr(BitAnd(At(buf, 0), 15), Shl8(version, 4))))

B6_set_traffic_class(buf, traffic_class) ==
    IF Len(buf) < 1 THEN Abort(buf)
    ELSE LET b1 == Put(buf, 0, BitOr(BitAnd(At(buf, 0), 240), Shr(traffic_class, 4)))
         IN  IF Len(buf) < 2 THEN Abort(b1)
             ELSE Done(Put(b1, 1, BitOr(BitAnd(At(b1, 1), 15), Shl8(traffic_class, 4))))

\* set_flow_label that stores the top nibble without keeping the traffic class
B6_set_flow_label_unmasked(buf, flow_label) ==
    IF Len(buf) < 2 THEN Abort(buf)
    ELSE LET b1 == Put(buf, 1, BitAnd(Shr(flow_label, 16), 15))
         IN  IF Len(buf) < 3 THEN Abort(b1)
             ELSE LET b2 == Put(b1, 2, BitAnd(Shr(flow_label, 8), 255))
                  IN  IF Len(buf) < 4 THEN Abort(b2)
                      ELSE Done(Put(b2, 3, BitAnd(flow_label, 255)))

B6_set_flow_label(buf, flow_label) ==
    IF Len(buf) < 2 THEN Abort(buf)
    ELSE LET b1 == Put(buf, 1, BitOr(BitAnd(At(buf, 1), 240),
                                     BitAnd(Shr(flow_label, 16), 15)))
         IN  IF Len(buf) < 3 THEN Abort(b1)
             ELSE LET b2 == Put(b1, 2, BitAnd(Shr(flow_label, 8), 255))
                  IN  IF Len(buf) < 4 THEN Abort(b2)
                      ELSE Done(Put(b2, 3, BitAnd(flow_label, 255)))

B6_set_payload_length(buf, payload_length) ==
    IF Len(buf) < 5 THEN Abort(buf)
    ELSE LET b1 == Put(buf, 4, Shr(payload_length, 8))
         IN  IF Len(buf) < 6 THEN Abort(b1)
             ELSE Done(Put(b1, 5, BitAnd(payload_length, 255)))

B6_set_next_header(buf, next_header) ==
    IF Len(buf) < 7 THEN Abort(buf) ELSE Done(Put(buf, 6, next_header))

B6_set_hop_limit(buf, hop_limit) ==
    IF Len(buf) < 8 THEN Abort(buf) ELSE Done(Put(buf, 7, hop_limit))

B6_set_source(buf, source) ==
    IF Len(buf) < 24 THEN Abort(buf) ELSE Done(PutSlice(buf, 8, source))

B6_set_destination(buf, destination) ==
    IF Len(buf) < 40 THEN Abort(buf) ELSE Done(PutSlice(buf, 24, destination))

\* mut_payload_ref that hands out everything after the header
B6_mut_payload_ref_to_end(buf) ==
    IF Len(buf) < 6 THEN OutOfBounds
    ELSE LET payload_length == BitOr(Shl32(At(buf, 4), 8), At(buf, 5))
         IN  IF 40 + payload_length > Len(buf) THEN OutOfBounds
             ELSE Ok([lo |-> 40, hi |-> Len(buf)])

\* the range [lo, hi) of the buffer that mut_payload_ref hands out
B6_mut_payload_ref(buf) ==
    IF Len(buf) < 6 THEN OutOfBounds
    ELSE LET payload_length == BitOr(Shl32(At(buf, 4), 8), At(buf, 5))
         IN  IF 40 + payload_length > Len(buf) THEN OutOfBounds
             ELSE Ok([lo |-> 40, hi |-> 40 + payload_length])

(***************************************************************************)
(* The buffers the I/O layer hands to the core.                            *)
(***************************************************************************)
\* the sum of a sequence of 16-bit words with end-around carry (RFC 1071)
RECURSIVE SumWords(_)
SumWords(ws) == IF ws = << >> THEN 0 ELSE Head(ws) + SumWords(Tail(ws))

RECURSIVE EndAroundCarry(_)
EndAroundCarry(n) ==
    IF n > 65535 THEN EndAroundCarry((n % 65536) + (n \div 65536)) ELSE n

OnesComplementSum(ws) == EndAroundCarry(SumWords(ws))

\* the 16-bit words of buf[0..hl] with the word at octets 10-11 left out
OtherHeaderWords(buf, hl) ==
    LET all == [k \in 1..(hl \div 2) |-> FromBe16(buf[2 * k - 1], buf[2 * k])]
    IN  SubSeq(all, 1, 5) \o SubSeq(all, 7, hl \div 2)

\* the checksum RFC 791 prescribes for the header buf[0..hl]
HeaderChecksum(buf, hl) == 65535 - OnesComplementSum(OtherHeaderWords(buf, hl))

TailOctets(n) == [i \in 1..n |-> 96 + i]

V4Header(b0, tl, id, ck) ==
    << b0, 0, tl \div 256, tl % 256, id \div 256, id % 256, 64, 0,
       64, 17, ck \div 256, ck % 256, 127, 0, 0, 1, 127, 0, 0, 1 >>

IhlNibbles == {4, 5, 6, 15}
IdModes == {"zero", "ones", "balance"}
CkModes == {"zero", "dead", "good"}
TotalLengths(len) == {0, 19, 20, 24, len - 1, len, len + 1, 65535}

\* an IPv4 input: the header of the tests with the given IHL nibble and total
\* length, t octets after the 20th, an identification and a stored checksum
V4Packet(nib, tl, idm, ckm, t) ==
    LET len  == 20 + t
        hl   == IF nib * 4 >= 20 /\ nib * 4 <= len THEN nib * 4 ELSE 20
        raw  == V4Header(64 + nib, tl, 0, 0) \o TailOctets(t)
        id   == CASE idm = "zero" -> 0
                  [] idm = "ones" -> 65535
                  [] OTHER -> 65535 - OnesComplementSum(OtherHeaderWords(raw, hl))
        noCk == V4Header(64 + nib, tl, id, 0) \o TailOctets(t)
        ck   == CASE ckm = "zero" -> 0
                  [] ckm = "dead" -> 57005
                  [] OTHER -> HeaderChecksum(noCk, hl)
    IN  V4Header(64 + nib, tl, id, ck) \o TailOctets(t)

IPv4Inputs ==
    { SubSeq(V4Header(69, 20, 0, 0), 1, n) : n \in 0..19 }
    \cup UNION { UNION { { V4Packet(nib, tl, idm, ckm, t) :
                             nib \in IhlNibbles, idm \in IdModes, ckm \in CkModes } :
                         tl \in TotalLengths(20 + t) } : t \in 0..MaxTail }

V6Header(b0, b1, pl) ==
    << b0, b1, 195, 60, pl \div 256, pl % 256, 59, 255 >>
    \o [i \in 1..16 |-> 255] \o [i \in 1..16 |-> 238]

PayloadLengths == {0, 1, 4, 256, 65535}

IPv6Inputs ==
    { SubSeq(V6Header(96, 0, 0), 1, n) : n \in 0..39 }
    \cup UNION { { V6Header(b[1], b[2], pl) \o [i \in 1..t |-> 171] :
                     b \in { <<96, 0>>, <<111, 255>>, <<165, 90>> },
                     pl \in PayloadLengths \cup {t, t + 1} } : t \in 0..MaxTail }

\* the buffers a builder is given: all-zero (as in construct_ipv6_packet) or
\* with every field already occupied by stale octets
BuilderInputs ==
    { [i \in 1..n |-> 0] : n \in {0, 1, 2, 3, 4, 5, 6, 7, 8, 24, 39} }
    \cup { [i \in 1..(40 + t) |-> f] : f \in {0, 165}, t \in 0..MaxBuilderTail }

\* the 14-octet header and payload of FRAME_BYTES, cut to n octets
EthInputs ==
    { SubSeq(<< 1, 2, 3, 4, 5, 6, 17, 18, 19, 20, 21, 22, 8, 0 >>
             \o [i \in 1..MaxTail |-> IF i = 1 THEN 170 ELSE 0], 1, n) :
      n \in 0..(14 + MaxTail) }

\* the ARP request of test_arp_packet_parsing, cut to n octets
ArpInputs ==
    { SubSeq(<< 0, 1, 8, 0, 6, 4, 0, 1, 222, 173, 190, 239, 222, 173,
                192, 168, 1, 1, 0, 0, 0, 0, 0, 0, 192, 168, 1, 2 >>
             \o [i \in 1..MaxTail |-> 0], 1, n) : n \in 0..(28 + MaxTail) }

Layers == {"eth", "arp", "ipv4", "ipv6", "ipv6_builder"}

Inputs(l) ==
    CASE l = "eth" -> EthInputs
      [] l = "arp" -> ArpInputs
      [] l = "ipv4" -> IPv4Inputs
      [] l = "ipv6" -> IPv6Inputs
      [] OTHER -> BuilderInputs

NoWindow == [lo |-> -1, hi |-> -1]
NoOp == [name |-> "none", arg |-> Unit]

Init ==
    /\ layer \in Layers
    /\ buffer \in Inputs(layer)
    /\ view = "none"
    /\ op = NoOp
    /\ result = None
    /\ window = NoWindow

(***************************************************************************)
(* Constructors.  A panic ends the thread: nothing runs after it.          *)
(***************************************************************************)
Running == ~IsPanic(result)

\* Self { buffer }
New(l, name) ==
    /\ Running
    /\ layer = l
    /\ view = "none"
    /\ view' = "plain"
    /\ op' = [name |-> name, arg |-> Unit]
    /\ result' = Ok(Unit)
    /\ UNCHANGED << layer, buffer, window >>

\* the checking constructor: the view exists only when the check passed
NewWithValidation(l, name, check) ==
    /\ Running
    /\ layer = l
    /\ view = "none"
    /\ view' = IF IsOk(check) THEN "validated" ELSE "none"
    /\ op' = [name |-> name, arg |-> Unit]
    /\ result' = check
    /\ UNCHANGED << layer, buffer, window >>

\* a read-only accessor of a view
Call(l, name, r) ==
    /\ Running
    /\ layer = l
    /\ view # "none"
    /\ op' = [name |-> name, arg |-> Unit]
    /\ result' = r
    /\ UNCHANGED << layer, buffer, view, window >>

(***************************************************************************)
(* Actions: one per constructor, accessor and setter.                      *)
(***************************************************************************)
IPv4_New == New("ipv4", "new")

IPv4_NewWithValidation ==
    NewWithValidation("ipv4", "new_with_validation", IPv4_check_length(buffer))

IPv4_Call_version == Call("ipv4", "version", IPv4_version(buffer))

IPv4_Call_ihl == Call("ipv4", "ihl", IPv4_ihl(buffer))

IPv4_Call_dscp == Call("ipv4", "dscp", IPv4_dscp(buffer))

IPv4_Call_ecn == Call("ipv4", "ecn", IPv4_ecn(buffer))

IPv4_Call_total_length == Call("ipv4", "total_length", IPv4_total_length(buffer))

IPv4_Call_identification == Call("ipv4", "identification", IPv4_identification(buffer))

IPv4_Call_dont_frag == Call("ipv4", "dont_frag", IPv4_dont_frag(buffer))

IPv4_Call_more_frags == Call("ipv4", "more_frags", IPv4_more_frags(buffer))

IPv4_Call_fragment_offset == Call("ipv4", "fragment_offset", IPv4_fragment_offset(buffer))

IPv4_Call_ttl == Call("ipv4", "ttl", IPv4_ttl(buffer))

IPv4_Call_protocol == Call("ipv4", "protocol", IPv4_protocol(buffer))

IPv4_Call_checksum == Call("ipv4", "checksum", IPv4_checksum(buffer))

IPv4_Call_src_addr == Call("ipv4", "src_addr", IPv4_src_addr(buffer))

IPv4_Call_dst_addr == Call("ipv4", "dst_addr", IPv4_dst_addr(buffer))

IPv4_Call_options == Call("ipv4", "options", IPv4_options(buffer))

IPv4_Call_payload == Call("ipv4", "payload", IPv4_payload(buffer))

IPv4_Call_key == Call("ipv4", "key", IPv4_key(buffer))

IPv4_Call_verify_checksum == Call("ipv4", "verify_checksum", IPv4_verify_checksum(buffer))

IPv6_New == New("ipv6", "new")

IPv6_NewWithValidation ==
    NewWithValidation("ipv6", "new_with_validation", IPv6_check_length(buffer))

IPv6_Call_version == Call("ipv6", "version", IPv6_version(buffer))

IPv6_Call_traffic_class == Call("ipv6", "traffic_class", IPv6_traffic_class(buffer))

IPv6_Call_flow_label == Call("ipv6", "flow_label", IPv6_flow_label(buffer))

IPv6_Call_payload_length == Call("ipv6", "payload_length", IPv6_payload_length(buffer))

IPv6_Call_total_length == Call("ipv6", "total_length", IPv6_total_length(buffer))

IPv6_Call_next_header == Call("ipv6", "next_header", IPv6_next_header(buffer))

IPv6_Call_hop_limit == Call("ipv6", "hop_limit", IPv6_hop_limit(buffer))

IPv6_Call_source == Call("ipv6", "source", IPv6_source(buffer))

IPv6_Call_destination == Call("ipv6", "destination", IPv6_destination(buffer))

IPv6_Call_payload == Call("ipv6", "payload", IPv6_payload(buffer))

Eth_New == New("eth", "new")

Eth_NewWithValidation ==
    NewWithValidation("eth", "new_with_validation", Eth_check(buffer))

Eth_Call_destination == Call("eth", "destination", Eth_destination(buffer))

Eth_Call_source == Call("eth", "source", Eth_source(buffer))

Eth_Call_ethertype == Call("eth", "ethertype", Eth_ethertype(buffer))

Eth_Call_payload == Call("eth", "payload", Eth_payload(buffer))

Arp_New == New("arp", "new")

Arp_NewWithValidation ==
    NewWithValidation("arp", "new_with_validation", Arp_check(buffer))

Arp_Call_hardware_type == Call("arp", "hardware_type", Arp_hardware_type(buffer))

Arp_Call_protocol_type == Call("arp", "protocol_type", Arp_protocol_type(buffer))

Arp_Call_hardware_address_length == Call("arp", "hardware_address_length", Arp_hardware_address_length(buffer))

Arp_Call_protocol_address_length == Call("arp", "protocol_address_length", Arp_protocol_address_length(buffer))

Arp_Call_operation == Call("arp", "operation", Arp_operation(buffer))

Arp_Call_sender_hardware_address == Call("arp", "sender_hardware_address", Arp_sender_hardware_address(buffer))

Arp_Call_sender_protocol_address == Call("arp", "sender_protocol_address", Arp_sender_protocol_address(buffer))

Arp_Call_target_hardware_address == Call("arp", "target_hardware_address", Arp_target_hardware_address(buffer))

Arp_Call_target_protocol_address == Call("arp", "target_protocol_address", Arp_target_protocol_address(buffer))

\* the ARP codes a conversion is asked to decode
ArpCodes == {0, 1, 2, 3, 2048, 65535}

Arp_Hardware_from ==
    \E value \in ArpCodes :
        /\ Running
        /\ layer = "arp"
        /\ op' = [name |-> "Hardware::from", arg |-> value]
        /\ result' = Hardware_from(value)
        /\ UNCHANGED << layer, buffer, view, window >>

Arp_Operation_from ==
    \E value \in ArpCodes :
        /\ Running
        /\ layer = "arp"
        /\ op' = [name |-> "Operation::from", arg |-> value]
        /\ result' = Operation_from(value)
        /\ UNCHANGED << layer, buffer, view, window >>

\* IPv6Packet { buffer } of the builder
B6_New ==
    /\ Running
    /\ layer = "ipv6_builder"
    /\ view = "none"
    /\ view' = "builder"
    /\ op' = [name |-> "new", arg |-> Unit]
    /\ result' = Ok(Unit)
    /\ UNCHANGED << layer, buffer, window >>

\* a setter takes &mut self: the borrow of an earlier window has ended
Set(name, arg, r) ==
    /\ Running
    /\ layer = "ipv6_builder"
    /\ view = "builder"
    /\ op' = [name |-> name, arg |-> arg]
    /\ buffer' = r.buf
    /\ result' = [tag |-> r.tag, val |-> r.val]
    /\ window' = NoWindow
    /\ UNCHANGED << layer, view >>

Versions == {22}
TrafficClasses == {153}
FlowLabels == {16073505}
SetPayloadLengths == {0, 2, 500}
Address6 == << 254, 128, 0, 0, 0, 0, 0, 0, 0, 0, 0, 0, 0, 0, 0, 1 >>

B6_SetVersion ==
    \E version \in Versions :
        Set("set_version", version, B6_set_version(buffer, version))

B6_SetTrafficClass ==
    \E traffic_class \in TrafficClasses :
        Set("set_traffic_class", traffic_class,
            B6_set_traffic_class(buffer, traffic_class))

B6_SetFlowLabel ==
    \E flow_label \in FlowLabels :
        Set("set_flow_label", flow_label, B6_set_flow_label(buffer, flow_label))

B6_SetPayloadLength ==
    \E payload_length \in SetPayloadLengths :
        Set("set_payload_length", payload_length,
            B6_set_payload_length(buffer, payload_length))

B6_SetNextHeader == Set("set_next_header", 6, B6_set_next_header(buffer, 6))

B6_SetHopLimit == Set("set_hop_limit", 254, B6_set_hop_limit(buffer, 254))

B6_SetSource == Set("set_source", Address6, B6_set_source(buffer, Address6))

B6_SetDestination ==
    Set("set_destination", Address6, B6_set_destination(buffer, Address6))

B6_MutPayloadRef ==
    LET r == B6_mut_payload_ref(buffer)
    IN  /\ Running
        /\ layer = "ipv6_builder"
        /\ view = "builder"
        /\ op' = [name |-> "mut_payload_ref", arg |-> Unit]
        /\ result' = r
        /\ window' = IF IsOk(r) THEN r.val ELSE NoWindow
        /\ UNCHANGED << layer, buffer, view >>

\* the caller stores an octet through the window it holds
B6_WriteWindow ==
    \E i \in window.lo..(window.hi - 1) :
        /\ Running
        /\ window # NoWindow
        /\ op' = [name |-> "window_write", arg |-> i - window.lo]
        /\ buffer' = Put(buffer, i, 222)
        /\ result' = Ok(Unit)
        /\ UNCHANGED << layer, view, window >>

Next ==
    \/ IPv4_New
    \/ IPv4_NewWithValidation
    \/ IPv4_Call_version
    \/ IPv4_Call_ihl
    \/ IPv4_Call_dscp
    \/ IPv4_Call_ecn
    \/ IPv4_Call_total_length
    \/ IPv4_Call_identification
    \/ IPv4_Call_dont_frag
    \/ IPv4_Call_more_frags
    \/ IPv4_Call_fragment_offset
    \/ IPv4_Call_ttl
    \/ IPv4_Call_protocol
    \/ IPv4_Call_checksum
    \/ IPv4_Call_src_addr
    \/ IPv4_Call_dst_addr
    \/ IPv4_Call_options
    \/ IPv4_Call_payload
    \/ IPv4_Call_key
    \/ IPv4_Call_verify_checksum
    \/ IPv6_New
    \/ IPv6_NewWithValidation
    \/ IPv6_Call_version
    \/ IPv6_Call_traffic_class
    \/ IPv6_Call_flow_label
    \/ IPv6_Call_payload_length
    \/ IPv6_Call_total_length
    \/ IPv6_Call_next_header
    \/ IPv6_Call_hop_limit
    \/ IPv6_Call_source
    \/ IPv6_Call_destination
    \/ IPv6_Call_payload
    \/ Eth_New
    \/ Eth_NewWithValidation
    \/ Eth_Call_destination
    \/ Eth_Call_source
    \/ Eth_Call_ethertype
    \/ Eth_Call_payload
    \/ Arp_New
    \/ Arp_NewWithValidation
    \/ Arp_Call_hardware_type
    \/ Arp_Call_protocol_type
    \/ Arp_Call_hardware_address_length
    \/ Arp_Call_protocol_address_length
    \/ Arp_Call_operation
    \/ Arp_Call_sender_hardware_address
    \/ Arp_Call_sender_protocol_address
    \/ Arp_Call_target_hardware_address
    \/ Arp_Call_target_protocol_address
    \/ Arp_Hardware_from
    \/ Arp_Operation_from
    \/ B6_New
    \/ B6_SetVersion
    \/ B6_SetTrafficClass
    \/ B6_SetFlowLabel
    \/ B6_SetPayloadLength
    \/ B6_SetNextHeader
    \/ B6_SetHopLimit
    \/ B6_SetSource
    \/ B6_SetDestination
    \/ B6_MutPayloadRef
    \/ B6_WriteWindow

Spec == Init /\ [][Next]_vars

(***************************************************************************)
(* Text.  A string is the sequence of its characters, each a one-character *)
(* string; "U+00E9" stands for the two-octet character e-acute.  A u64 is   *)
(* the sequence of its eight octets, most significant first.               *)
(***************************************************************************)
MaxMacText == 13

Utf8Len(c) == IF c = "U+00E9" THEN 2 ELSE 1

\* str::len: the length in octets
RECURSIVE StrLen(_)
StrLen(s) == IF s = << >> THEN 0 ELSE Utf8Len(Head(s)) + StrLen(Tail(s))

\* str::replace(&[..][..], ""): every character of the set is dropped
StrRemove(s, chars) == SelectSeq(s, LAMBDA c : c \notin chars)

HexLower == << "0", "1", "2", "3", "4", "5", "6", "7", "8", "9",
               "a", "b", "c", "d", "e", "f" >>
HexUpper == << "0", "1", "2", "3", "4", "5", "6", "7", "8", "9",
               "A", "B", "C", "D", "E", "F" >>

\* char::to_digit(radix): the digit value, -1 for None
ToDigit(c, radix) ==
    IF \E i \in 1..radix : HexLower[i] = c
    THEN (CHOOSE i \in 1..radix : HexLower[i] = c) - 1
    ELSE IF \E i \in 1..radix : HexUpper[i] = c
    THEN (CHOOSE i \in 1..radix : HexUpper[i] = c) - 1
    ELSE -1

\* {:x}
RECURSIVE LowerHex(_)
LowerHex(n) ==
    IF n < 16 THEN << HexLower[n + 1] >>
    ELSE LowerHex(n \div 16) \o << HexLower[(n % 16) + 1] >>

\* {}
RECURSIVE Decimal(_)
Decimal(n) ==
    IF n < 10 THEN << HexLower[n + 1] >>
    ELSE Decimal(n \div 10) \o << HexLower[(n % 10) + 1] >>

U64Zero == << 0, 0, 0, 0, 0, 0, 0, 0 >>

\* checked_mul(radix) then checked_add(digit) on the eight octets, from the
\* least significant octet up; a carry out of the top octet is an overflow
RECURSIVE U64MulAdd(_, _, _, _)
U64MulAdd(v, i, radix, carry) ==
    IF i = 0 THEN IF carry = 0 THEN Ok(v) ELSE Err("PosOverflow")
    ELSE LET t == v[i] * radix + carry
         IN  U64MulAdd([v EXCEPT ![i] = t % 256], i - 1, radix, t \div 256)

RECURSIVE U64Digits(_, _, _)
U64Digits(digits, radix, acc) ==
    IF digits = << >> THEN Ok(acc)
    ELSE LET d == ToDigit(Head(digits), radix)
         IN  IF d < 0 THEN Err("InvalidDigit")
             ELSE LET r == U64MulAdd(acc, 8, radix, d)
                  IN  IF IsOk(r) THEN U64Digits(Tail(digits), radix, r.val)
                      ELSE r

\* u64::from_str_radix: an unsigned type takes a leading '+' and no '-'
U64_from_str_radix(src, radix) ==
    IF src = << >> THEN Err("Empty")
    ELSE IF src = << "+" >> \/ src = << "-" >> THEN Err("InvalidDigit")
    ELSE IF Head(src) = "+" THEN U64Digits(Tail(src), radix, U64Zero)
    ELSE U64Digits(src, radix, U64Zero)

\* (v >> shift) & 0xFF, shift a multiple of 8
U64Octet(v, shift) == v[8 - (shift \div 8)]

\* str::split(c): the parts between the occurrences of c
RECURSIVE StrSplit(_, _)
StrSplit(s, c) ==
    IF \A i \in 1..Len(s) : s[i] # c THEN << s >>
    ELSE LET i == CHOOSE k \in 1..Len(s) :
                      s[k] = c /\ \A j \in 1..(k - 1) : s[j] # c
         IN  << SubSeq(s, 1, i - 1) >> \o StrSplit(SubSeq(s, i + 1, Len(s)), c)

\* checked_mul(10) then checked_add(digit) in u8
RECURSIVE U8Digits(_, _)
U8Digits(digits, acc) ==
    IF digits = << >> THEN Ok(acc)
    ELSE LET d == ToDigit(Head(digits), 10)
         IN  IF d < 0 THEN Err("InvalidDigit")
             ELSE IF acc * 10 + d > 255 THEN Err("PosOverflow")
             ELSE U8Digits(Tail(digits), acc * 10 + d)

\* str::parse::<u8>: as from_str_radix(src, 10)
U8_from_str(src) ==
    IF src = << >> THEN Err("Empty")
    ELSE IF src = << "+" >> \/ src = << "-" >> THEN Err("InvalidDigit")
    ELSE IF Head(src) = "+" THEN U8Digits(Tail(src), 0)
    ELSE U8Digits(src, 0)

(***************************************************************************)
(* address/ipv4.rs: IPv4([u8; 4])                                          *)
(***************************************************************************)
\* the part count tested too leniently: a fifth part is ignored
ipv4_from_string_lenient(addr_str) ==
    LET parts == StrSplit(addr_str, ".")
    IN  IF Len(parts) < 4 THEN Err("IPv4AddressError::InvalidLength")
        ELSE IF \E i \in 1..4 : ~IsOk(U8_from_str(parts[i]))
        THEN Err("IPv4AddressError::InvalidCharacter")
        ELSE Ok([i \in 1..4 |-> U8_from_str(parts[i]).val])

ipv4_from_string(addr_str) ==
    LET parts == StrSplit(addr_str, ".")
    IN  IF Len(parts) # 4 THEN Err("IPv4AddressError::InvalidLength")
        ELSE IF \E i \in 1..4 : ~IsOk(U8_from_str(parts[i]))
        THEN Err("IPv4AddressError::InvalidCharacter")
        ELSE Ok([i \in 1..4 |-> U8_from_str(parts[i]).val])

ipv4_to_string(addr) ==
    Decimal(addr[1]) \o << "." >> \o Decimal(addr[2]) \o << "." >> \o
    Decimal(addr[3]) \o << "." >> \o Decimal(addr[4])

\* A u32 is the pair of its 16-bit halves, the high half first.
\* the octets taken in little-endian order
ipv4_to_u32_le(addr) ==
    << FromBe16(addr[4], addr[3]), FromBe16(addr[2], addr[1]) >>

\* u32::from_be_bytes
ipv4_to_u32(addr) ==
    << FromBe16(addr[1], addr[2]), FromBe16(addr[3], addr[4]) >>

\* u32::to_be_bytes
ipv4_from_u32(addr) ==
    << addr[1] \div 256, addr[1] % 256, addr[2] \div 256, addr[2] % 256 >>

ipv4_is_broadcast(addr) == addr = << 255, 255, 255, 255 >>

ipv4_is_multicast(addr) == BitAnd(addr[1], 240) = 224

ipv4_is_unspecified(addr) == addr[1] = 0

\* unicast without the test for the unspecified address
ipv4_is_unicast_lax(addr) ==
    ~ipv4_is_broadcast(addr) /\ ~ipv4_is_multicast(addr)

ipv4_is_unicast(addr) ==
    ~ipv4_is_broadcast(addr) /\ ~ipv4_is_multicast(addr) /\ ~ipv4_is_unspecified(addr)

ipv4_is_link_local(addr) == addr[1] = 169 /\ addr[2] = 254

ipv4_is_loopback(addr) == addr[1] = 127

ipv4_is_private(addr) ==
    \/ addr[1] = 10
    \/ addr[1] = 172 /\ addr[2] >= 16 /\ addr[2] <= 31
    \/ addr[1] = 192 /\ addr[2] = 168

(***************************************************************************)
(* std::net::Ipv6Addr::from_str, the parser address/ipv6.rs delegates to.  *)
(* A read yields [ok, val, pos]: whether it matched, the value read and    *)
(* the position after it; a failed read consumes nothing.                  *)
(***************************************************************************)
NoRead == [ok |-> FALSE, val |-> 0, pos |-> 0]

\* the number of digit characters of the radix from position pos on
RECURSIVE DigitRun(_, _, _)
DigitRun(s, pos, radix) ==
    IF pos > Len(s) \/ ToDigit(s[pos], radix) < 0 THEN 0
    ELSE 1 + DigitRun(s, pos + 1, radix)

RECURSIVE NumValue(_, _)
NumValue(digits, radix) ==
    IF digits = << >> THEN 0
    ELSE NumValue(SubSeq(digits, 1, Len(digits) - 1), radix) * radix
         + ToDigit(digits[Len(digits)], radix)

\* Parser::read_number: all the digits that follow, at most max_digits of
\* them, no value above max, no zero prefix unless allowed
ReadNumber(s, pos, radix, max_digits, allow_zero_prefix, max) ==
    LET n == DigitRun(s, pos, radix)
        v == NumValue(SubSeq(s, pos, pos + n - 1), radix)
    IN  IF n = 0 \/ n > max_digits \/ v > max THEN NoRead
        ELSE IF ~allow_zero_prefix /\ s[pos] = "0" /\ n > 1 THEN NoRead
        ELSE [ok |-> TRUE, val |-> v, pos |-> pos + n]

\* Parser::read_separator: the separator is due before every item but the
\* first; the position after it, 0 when it is missing
AfterSeparator(s, pos, sep, index) ==
    IF index = 0 THEN pos
    ELSE IF pos <= Len(s) /\ s[pos] = sep THEN pos + 1
    ELSE 0

\* Parser::read_ipv4_addr: four decimal octets separated by '.'
RECURSIVE ReadIpv4Octets(_, _, _, _)
ReadIpv4Octets(s, pos, i, octets) ==
    IF i = 4 THEN [ok |-> TRUE, val |-> octets, pos |-> pos]
    ELSE LET at == AfterSeparator(s, pos, ".", i)
             r  == IF at = 0 THEN NoRead
                   ELSE ReadNumber(s, at, 10, 3, FALSE, 255)
         IN  IF r.ok THEN ReadIpv4Octets(s, r.pos, i + 1, Append(octets, r.val))
             ELSE NoRead

ReadIpv4Addr(s, pos) == ReadIpv4Octets(s, pos, 0, << >>)

\* read_groups: colon-separated groups, the last two of which may be an
\* embedded IPv4 address; [n, ipv4, groups, pos]
RECURSIVE ReadGroups(_, _, _, _, _)
ReadGroups(s, pos, limit, i, groups) ==
    IF i >= limit
    THEN [n |-> i, ipv4 |-> FALSE, groups |-> groups, pos |-> pos]
    ELSE LET at == AfterSeparator(s, pos, ":", i)
             v4 == IF i < limit - 1 /\ at # 0 THEN ReadIpv4Addr(s, at)
                   ELSE NoRead
             g  == IF at = 0 THEN NoRead
                   ELSE ReadNumber(s, at, 16, 4, TRUE, 65535)
         IN  IF v4.ok
             THEN [n |-> i + 2, ipv4 |-> TRUE,
                   groups |-> groups \o << FromBe16(v4.val[1], v4.val[2]),
                                           FromBe16(v4.val[3], v4.val[4]) >>,
                   pos |-> v4.pos]
             ELSE IF g.ok
             THEN ReadGroups(s, g.pos, limit, i + 1, Append(groups, g.val))
             ELSE [n |-> i, ipv4 |-> FALSE, groups |-> groups, pos |-> pos]

\* Parser::read_ipv6_addr, then the demand that the whole text was read
Ipv6Addr_from_str(s) ==
    LET head == ReadGroups(s, 1, 8, 0, << >>)
    IN  IF head.n = 8
        THEN IF head.pos = Len(s) + 1 THEN Ok(head.groups)
             ELSE Err("AddrParseError")
        ELSE IF head.ipv4 THEN Err("AddrParseError")
        ELSE IF ~( /\ head.pos + 1 <= Len(s)
                   /\ s[head.pos] = ":" /\ s[head.pos + 1] = ":" )
        THEN Err("AddrParseError")
        ELSE LET limit == 8 - (head.n + 1)
                 tail  == ReadGroups(s, head.pos + 2, limit, 0, << >>)
             IN  IF tail.pos # Len(s) + 1 THEN Err("AddrParseError")
                 ELSE Ok(head.groups
                         \o [k \in 1..(8 - head.n - tail.n) |-> 0]
                         \o tail.groups)

(***************************************************************************)
(* address/ipv6.rs: IPv6([u8; 16])                                         *)
(***************************************************************************)
IPV4_MAPPED_PREFIX == << 0, 0, 0, 0, 0, 0, 0, 0, 0, 0, 255, 255 >>

ipv6_from_segments(data) ==
    IF Len(data) # 8 THEN Err("Ipv6AddressError::InvalidLength")
    ELSE Ok([k \in 1..16 |->
               IF k % 2 = 1 THEN Shr(data[(k + 1) \div 2], 8)
               ELSE BitAnd(data[k \div 2], 255)])

ipv6_to_segments(addr) ==
    [i \in 1..8 |-> BitOr(Shl32(addr[2 * i - 1], 8), addr[2 * i])]

ipv6_from_string(addr_str) ==
    LET r == Ipv6Addr_from_str(addr_str)
    IN  IF IsOk(r) THEN ipv6_from_segments(r.val)
        ELSE Err("Ipv6AddressError::InvalidFormat")

ipv6_is_multicast(addr) == addr[1] = 255

ipv6_is_unspecified(addr) == addr = [k \in 1..16 |-> 0]

ipv6_is_unicast(addr) == ~ipv6_is_multicast(addr) /\ ~ipv6_is_unspecified(addr)

ipv6_is_global_unicast(addr) == Shr(addr[1], 5) = 1

ipv6_is_link_local(addr) == addr[1] = 254 /\ BitAnd(addr[2], 192) = 128

\* the unique-local test with the last prefix bit left out of the mask
ipv6_is_private_wide(addr) == BitAnd(addr[1], 252) = 252

ipv6_is_private(addr) == BitAnd(addr[1], 254) = 252

ipv6_is_loopback(addr) == addr = [k \in 1..16 |-> IF k = 16 THEN 1 ELSE 0]

ipv6_is_ipv4_mapped(addr) == SubSeq(addr, 1, 12) = IPV4_MAPPED_PREFIX

ipv6_is_solicited_node_multicast(addr) ==
    /\ addr[1] = 255 /\ addr[2] = 2 /\ addr[12] = 1 /\ addr[13] = 255
    /\ BitAnd(BitAnd(addr[14], addr[15]), addr[16]) # 0

\* the scan with a zero group after the tail's first group left out
ScanStep_drop(st, segment) ==
    IF segment = 0 /\ st.state \in {"Head", "HeadBody"}
    THEN [state |-> "Tail", out |-> st.out \o << ":", ":" >>]
    ELSE IF segment = 0 THEN st
    ELSE IF st.state = "Head"
    THEN [state |-> "HeadBody", out |-> st.out \o LowerHex(segment)]
    ELSE IF st.state = "Tail"
    THEN [state |-> "TailBody", out |-> st.out \o LowerHex(segment)]
    ELSE [state |-> st.state, out |-> st.out \o << ":" >> \o LowerHex(segment)]

\* the scan compressing every run of zero groups
ScanStep_recompress(st, segment) ==
    IF segment = 0 /\ st.state \in {"Head", "HeadBody", "TailBody"}
    THEN [state |-> "Tail", out |-> st.out \o << ":", ":" >>]
    ELSE IF segment = 0 /\ st.state = "Tail" THEN st
    ELSE IF st.state = "Head"
    THEN [state |-> "HeadBody", out |-> st.out \o LowerHex(segment)]
    ELSE IF st.state = "Tail"
    THEN [state |-> "TailBody", out |-> st.out \o LowerHex(segment)]
    ELSE [state |-> st.state, out |-> st.out \o << ":" >> \o LowerHex(segment)]

\* the scan printing a leading zero group instead of compressing it
ScanStep_lazy(st, segment) ==
    IF segment = 0 /\ st.state = "HeadBody"
    THEN [state |-> "Tail", out |-> st.out \o << ":", ":" >>]
    ELSE IF segment = 0 /\ st.state = "Tail" THEN st
    ELSE IF st.state = "Head"
    THEN [state |-> "HeadBody", out |-> st.out \o LowerHex(segment)]
    ELSE IF st.state = "Tail"
    THEN [state |-> "TailBody", out |-> st.out \o LowerHex(segment)]
    ELSE [state |-> st.state, out |-> st.out \o << ":" >> \o LowerHex(segment)]

\* one turn of the loop of to_string: match (*segment, &state)
ScanStep(st, segment) ==
    IF segment = 0 /\ st.state \in {"Head", "HeadBody"}
    THEN [state |-> "Tail", out |-> st.out \o << ":", ":" >>]
    ELSE IF segment = 0 /\ st.state = "Tail" THEN st
    ELSE IF st.state = "Head"
    THEN [state |-> "HeadBody", out |-> st.out \o LowerHex(segment)]
    ELSE IF st.state = "Tail"
    THEN [state |-> "TailBody", out |-> st.out \o LowerHex(segment)]
    ELSE [state |-> st.state, out |-> st.out \o << ":" >> \o LowerHex(segment)]

\* the early return of to_string
ipv6_to_string_mapped(addr) ==
    << ":", ":", "f", "f", "f", "f", ":" >>
    \o Decimal(addr[13]) \o << "." >> \o Decimal(addr[14]) \o << "." >>
    \o Decimal(addr[15]) \o << "." >> \o Decimal(addr[16])

(***************************************************************************)
(* address/mac.rs: MacAddress(u64)                                         *)
(***************************************************************************)
MacSeparators == {":", "-", "."}

\* MacAddress(address): the wrapped u64 is the argument, whatever its size
MacAddress_new(address) == address

MacAddress_parse(s) ==
    LET normalized_str == StrRemove(s, MacSeparators)
    IN  IF StrLen(normalized_str) # 12
        THEN Err("MacAddressParseError::InvalidLength")
        ELSE LET r == U64_from_str_radix(normalized_str, 16)
             IN  IF IsOk(r) THEN r
                 ELSE Err("MacAddressParseError::InvalidCharacter")

\* the six octets taken from the top of the u64
MacAddress_to_bytes_top(mac) ==
    << U64Octet(mac, 56), U64Octet(mac, 48), U64Octet(mac, 40),
       U64Octet(mac, 32), U64Octet(mac, 24), U64Octet(mac, 16) >>

MacAddress_to_bytes(mac) ==
    << U64Octet(mac, 40), U64Octet(mac, 32), U64Octet(mac, 24),
       U64Octet(mac, 16), U64Octet(mac, 8), U64Octet(mac, 0) >>

\* {:02x}
LowerHex02(b) == IF b < 16 THEN << "0" >> \o LowerHex(b) ELSE LowerHex(b)

\* the six octets printed without the zero padding
MacAddress_to_string_unpadded(mac) ==
    LowerHex(U64Octet(mac, 40)) \o << ":" >> \o
    LowerHex(U64Octet(mac, 32)) \o << ":" >> \o
    LowerHex(U64Octet(mac, 24)) \o << ":" >> \o
    LowerHex(U64Octet(mac, 16)) \o << ":" >> \o
    LowerHex(U64Octet(mac, 8)) \o << ":" >> \o
    LowerHex(U64Octet(mac, 0))

MacAddress_to_string(mac) ==
    LowerHex02(U64Octet(mac, 40)) \o << ":" >> \o
    LowerHex02(U64Octet(mac, 32)) \o << ":" >> \o
    LowerHex02(U64Octet(mac, 24)) \o << ":" >> \o
    LowerHex02(U64Octet(mac, 16)) \o << ":" >> \o
    LowerHex02(U64Octet(mac, 8)) \o << ":" >> \o
    LowerHex02(U64Octet(mac, 0))

(***************************************************************************)
(* assemblers/ethernet.rs: the EthernetFrame builder over a mutable buffer *)
(***************************************************************************)
\* EtherType as u16
EtherType_as_u16(value) ==
    CASE value = "EtherType::Ipv4" -> 2048
      [] value = "EtherType::Arp" -> 2054
      [] value = "EtherType::Ipv6" -> 34525

ToBe16(v) == << v \div 256, v % 256 >>

EB_set_destination(buf, value) ==
    IF Len(buf) < 6 THEN Abort(buf)
    ELSE Done(PutSlice(buf, 0, MacAddress_to_bytes(value)))

\* the source written one octet early
EB_set_source_early(buf, value) ==
    IF Len(buf) < 11 THEN Abort(buf)
    ELSE Done(PutSlice(buf, 5, MacAddress_to_bytes(value)))

EB_set_source(buf, value) ==
    IF Len(buf) < 12 THEN Abort(buf)
    ELSE Done(PutSlice(buf, 6, MacAddress_to_bytes(value)))

EB_set_ethertype(buf, value) ==
    IF Len(buf) < 14 THEN Abort(buf)
    ELSE Done(PutSlice(buf, 12, ToBe16(EtherType_as_u16(value))))

\* &mut self.buffer[14..]
EB_mut_payload_ref(buf) ==
    IF Len(buf) < 14 THEN OutOfBounds
    ELSE Ok([lo |-> 14, hi |-> Len(buf)])

\* the buffers a caller hands to the builder
EthBuilderInputs ==
    { [i \in 1..n |-> 0] : n \in {0, 5, 6, 11, 12, 13} }
    \cup { [i \in 1..(14 + t) |-> f] : f \in {0, 165}, t \in 0..MaxBuilderTail }

EB_Init ==
    /\ layer = "eth_builder"
    /\ buffer \in EthBuilderInputs
    /\ view = "none"
    /\ op = NoOp
    /\ result = None
    /\ window = NoWindow

\* EthernetFrame { buffer }
EB_New ==
    /\ Running
    /\ view = "none"
    /\ view' = "builder"
    /\ op' = [name |-> "new", arg |-> Unit]
    /\ result' = Ok(Unit)
    /\ UNCHANGED << layer, buffer, window >>

\* a setter takes &mut self: the borrow of an earlier window has ended
EB_Set(name, arg, r) ==
    /\ Running
    /\ view = "builder"
    /\ op' = [name |-> name, arg |-> arg]
    /\ buffer' = r.buf
    /\ result' = [tag |-> r.tag, val |-> r.val]
    /\ window' = NoWindow
    /\ UNCHANGED << layer, view >>

Destinations == { << 0, 0, 1, 2, 3, 4, 5, 6 >>,
                  << 0, 0, 255, 255, 255, 255, 255, 255 >> }
Sources == { << 0, 0, 17, 18, 19, 20, 21, 22 >> }
EtherTypes == {"EtherType::Ipv4", "EtherType::Arp", "EtherType::Ipv6"}

EB_SetDestination ==
    \E value \in Destinations :
        EB_Set("set_destination", value, EB_set_destination(buffer, value))

EB_SetSource ==
    \E value \in Sources :
        EB_Set("set_source", value, EB_set_source(buffer, value))

EB_SetEthertype ==
    \E value \in EtherTypes :
        EB_Set("set_ethertype", value, EB_set_ethertype(buffer, value))

EB_MutPayloadRef ==
    LET r == EB_mut_payload_ref(buffer)
    IN  /\ Running
        /\ view = "builder"
        /\ op' = [name |-> "mut_payload_ref", arg |-> Unit]
        /\ result' = r
        /\ window' = IF IsOk(r) THEN r.val ELSE NoWindow
        /\ UNCHANGED << layer, buffer, view >>

\* payload_mut[i] = 0xaa through the window the caller holds
EB_WriteWindow ==
    \E i \in window.lo..(window.hi - 1) :
        /\ Running
        /\ window # NoWindow
        /\ op' = [name |-> "window_write", arg |-> i - window.lo]
        /\ buffer' = Put(buffer, i, 170)
        /\ result' = Ok(Unit)
        /\ UNCHANGED << layer, view, window >>

EB_Next ==
    \/ EB_New
    \/ EB_SetDestination
    \/ EB_SetSource
    \/ EB_SetEthertype
    \/ EB_MutPayloadRef
    \/ EB_WriteWindow

EthBuilderSpec == EB_Init /\ [][EB_Next]_vars

(***************************************************************************)
(* The address functions as operations on one input: `buffer` holds the    *)
(* text or the address value, `view` says which of the two it is.          *)
(***************************************************************************)
\* body with the separator c after every k characters
RECURSIVE Grouped(_, _, _)
Grouped(body, k, c) ==
    IF Len(body) <= k THEN body
    ELSE SubSeq(body, 1, k) \o << c >> \o Grouped(SubSeq(body, k + 1, Len(body)), k, c)

MacOddChars == {"+", "g", "A", "U+00E9"}
MacFill == {"0", "f"}

\* n characters of fill, the p-th one replaced by an odd character
MacBodies ==
    { [i \in 1..n |-> IF i = p THEN x ELSE y] :
        n \in 0..MaxMacText, p \in 0..MaxMacText, x \in MacOddChars, y \in MacFill }

MacTexts ==
    { Grouped(b, 2, ":") : b \in MacBodies }
    \cup { Grouped(b, 2, "-") : b \in MacBodies }
    \cup { Grouped(b, 4, ".") : b \in MacBodies }
    \cup { << ".", "-" >> \o b \o << ":" >> : b \in MacBodies }
    \cup MacBodies

MacOctets == {0, 10, 165, 255}

\* the two octets above bit 47
MacHighOctets == { << 0, 1 >>, << 128, 0 >>, << 255, 255 >> }

\* values below 2^48, and values with bits above bit 47 set
MacValues ==
    { << 0, 0, a, b, c, d, e, f >> : a \in {0, 17}, b \in MacOctets, c \in MacOctets,
                                     d \in MacOctets, e \in MacOctets, f \in MacOctets }
    \cup { h \o << a, b, 0, 10, e, f >> : h \in MacHighOctets, a \in {0, 17},
                                         b \in MacOctets, e \in MacOctets,
                                         f \in MacOctets }

\* a function of the address modules applied to the input
Apply(l, kind, name, r) ==
    /\ Running
    /\ result.tag # "scan"
    /\ layer = l
    /\ view = kind
    /\ op' = [name |-> name, arg |-> Unit]
    /\ result' = r
    /\ UNCHANGED << layer, buffer, view, window >>

\* parse(&to_string(mac))
Mac_ParseString ==
    /\ op.name = "to_string"
    /\ Apply("mac", "value", "parse(to_string)", MacAddress_parse(result.val))

\* parts joined by c
RECURSIVE StrJoin(_, _)
StrJoin(parts, c) ==
    IF Len(parts) = 0 THEN << >>
    ELSE IF Len(parts) = 1 THEN parts[1]
    ELSE parts[1] \o << c >> \o StrJoin(Tail(parts), c)

MaxV4Parts == 5

V4Parts == { << >>, << "0" >>, << "2", "5", "5" >>, << "2", "5", "6" >>,
             << "+", "7" >>, << "x" >>, << "0", "0", "7" >>, << "+" >> }

\* four parts of every kind, and other part counts
V4Texts ==
    { StrJoin(<< a, b, c, d >>, ".") : a \in V4Parts, b \in V4Parts,
                                        c \in V4Parts, d \in V4Parts }
    \cup { StrJoin([i \in 1..n |-> IF i = p THEN << >> ELSE << "1" >>], ".") :
             n \in 1..MaxV4Parts, p \in 0..MaxV4Parts }

\* the groups of display_standard_ipv6, with one-digit groups among them
V6Shapes == { << 8193, 3512, 34211, 1, 16, 35374, 880, 29492 >>,
              << 65535, 65535, 65535, 65535, 65535, 65535, 65535, 65535 >>,
              << 1, 1, 1, 1, 1, 1, 1, 1 >> }

\* every placement of zero groups
V6Scanned ==
    { ipv6_from_segments([i \in 1..8 |-> IF i \in Z THEN 0 ELSE g[i]]).val :
        Z \in SUBSET (1..8), g \in V6Shapes }

V6MappedOctets == {0, 10, 192, 255}

V6Mapped ==
    { IPV4_MAPPED_PREFIX \o << a, b, c, d >> :
        a \in V6MappedOctets, b \in V6MappedOctets,
        c \in V6MappedOctets, d \in V6MappedOctets }

V6LastOctets == { << 0, 0, 0 >>, << 0, 0, 1 >>, << 1, 2, 4 >>, << 1, 1, 1 >>,
                  << 0, 0, 255 >>, << 255, 255, 255 >> }

\* the prefixes the classification tests look at
V6Classified ==
    { << b0, b1, 0, 0, 0, 0, 0, 0, 0, 0, 0, b11, b12 >> \o last :
        b0 \in {0, 32, 63, 64, 252, 253, 254, 255},
        b1 \in {0, 2, 128, 191, 192},
        b11 \in {0, 1}, b12 \in {0, 255}, last \in V6LastOctets }

V6Values == V6Scanned \cup V6Mapped \cup V6Classified

\* the text of test_parse_valid_ipv6 and malformed variants of "::"
V6Texts ==
    { << "2", "0", "0", "1", ":", "0", "d", "b", "8", ":", "8", "5", "a", "3",
         ":", "0", "0", "0", "0", ":", "0", "0", "0", "0", ":", "8", "a", "2",
         "e", ":", "0", "3", "7", "0", ":", "7", "3", "3", "4" >>,
      << ":", ":" >>, << ":", ":", "1" >>, << "1", ":", ":" >>,
      << "1", ":", ":", "2", ":", ":", "3" >>, << ":", ":", ":" >>,
      << "1", ":", "2" >>, << "1", "2", "3", "4", "5", ":", ":" >>,
      << ":", ":", "f", "f", "f", "f", ":", "1", ".", "2", ".", "3", ".", "0", "4" >>,
      << ":", ":", "g" >>, << >> }

\* the loop of to_string before its first turn
ScanStart == [tag |-> "scan", val |-> [i |-> 0, state |-> "Head", out |-> << >>]]

\* to_string up to its loop: an IPv4-mapped address returns at once
IPv6_ToString ==
    Apply("ipv6_addr", "value", "to_string",
          IF ipv6_is_ipv4_mapped(buffer) THEN Ok(ipv6_to_string_mapped(buffer))
          ELSE ScanStart)

\* one turn of the loop over the segments
IPv6_ToStringScan ==
    /\ result.tag = "scan"
    /\ result.val.i < 8
    /\ LET segment == ipv6_to_segments(buffer)[result.val.i + 1]
           st == ScanStep([state |-> result.val.state, out |-> result.val.out],
                          segment)
       IN  /\ result' = [tag |-> "scan",
                         val |-> [i |-> result.val.i + 1, state |-> st.state,
                                  out |-> st.out]]
           /\ op' = [name |-> "to_string", arg |-> segment]
    /\ UNCHANGED << layer, buffer, view, window >>

\* the loop is over: to_string returns the text
IPv6_ToStringReturn ==
    /\ result.tag = "scan"
    /\ result.val.i = 8
    /\ result' = Ok(result.val.out)
    /\ op' = [name |-> "to_string", arg |-> Unit]
    /\ UNCHANGED << layer, buffer, view, window >>

\* from_string(&to_string(&addr))
IPv6_FromStringOfString ==
    /\ op.name = "to_string"
    /\ IsOk(result)
    /\ Apply("ipv6_addr", "value", "from_string(to_string)",
             ipv6_from_string(result.val))


\* first and second octets on both sides of every class boundary
V4FirstOctets == {0, 1, 10, 127, 169, 172, 192, 223, 224, 239, 240, 255}
V4SecondOctets == {0, 15, 16, 31, 32, 168, 254, 255}
V4LowOctets == {0, 1, 100, 255}

V4Values ==
    { << a, b, c, d >> : a \in V4FirstOctets, b \in V4SecondOctets,
                         c \in V4LowOctets, d \in V4LowOctets }

AddrInputs(l, kind) ==
    CASE l = "mac" /\ kind = "text" -> MacTexts
      [] l = "mac" /\ kind = "value" -> MacValues
      [] l = "ipv4_addr" /\ kind = "text" -> V4Texts
      [] l = "ipv4_addr" /\ kind = "value" -> V4Values
      [] l = "ipv6_addr" /\ kind = "text" -> V6Texts
      [] l = "ipv6_addr" /\ kind = "value" -> V6Values
      [] OTHER -> {}

AddrLayers == {"mac", "ipv4_addr", "ipv6_addr"}

AddrInit ==
    /\ layer \in AddrLayers
    /\ view \in {"text", "value"}
    /\ buffer \in AddrInputs(layer, view)
    /\ op = NoOp
    /\ result = None
    /\ window = NoWindow

AddrNext ==
    \/ Apply("mac", "text", "parse", MacAddress_parse(buffer))
    \/ Apply("mac", "value", "new", Ok(MacAddress_new(buffer)))
    \/ Apply("mac", "value", "to_bytes", Ok(MacAddress_to_bytes(buffer)))
    \/ Apply("mac", "value", "to_string", Ok(MacAddress_to_string(buffer)))
    \/ Mac_ParseString
    \/ Apply("ipv4_addr", "text", "from_string", ipv4_from_string(buffer))
    \/ Apply("ipv4_addr", "value", "to_string", Ok(ipv4_to_string(buffer)))
    \/ op.name = "to_string" /\ Apply("ipv4_addr", "value", "from_string(to_string)", ipv4_from_string(result.val))
    \/ Apply("ipv4_addr", "value", "to_u32", Ok(ipv4_to_u32(buffer)))
    \/ op.name = "to_u32" /\ Apply("ipv4_addr", "value", "from_u32(to_u32)", Ok(ipv4_from_u32(result.val)))
    \/ Apply("ipv4_addr", "value", "is_unicast", Ok(ipv4_is_unicast(buffer)))
    \/ Apply("ipv4_addr", "value", "is_broadcast", Ok(ipv4_is_broadcast(buffer)))
    \/ Apply("ipv4_addr", "value", "is_multicast", Ok(ipv4_is_multicast(buffer)))
    \/ Apply("ipv4_addr", "value", "is_unspecified", Ok(ipv4_is_unspecified(buffer)))
    \/ Apply("ipv4_addr", "value", "is_link_local", Ok(ipv4_is_link_local(buffer)))
    \/ Apply("ipv4_addr", "value", "is_loopback", Ok(ipv4_is_loopback(buffer)))
    \/ Apply("ipv4_addr", "value", "is_private", Ok(ipv4_is_private(buffer)))
    \/ Apply("ipv6_addr", "text", "from_string", ipv6_from_string(buffer))
    \/ Apply("ipv6_addr", "value", "is_unicast", Ok(ipv6_is_unicast(buffer)))
    \/ Apply("ipv6_addr", "value", "is_global_unicast", Ok(ipv6_is_global_unicast(buffer)))
    \/ Apply("ipv6_addr", "value", "is_multicast", Ok(ipv6_is_multicast(buffer)))
    \/ Apply("ipv6_addr", "value", "is_unspecified", Ok(ipv6_is_unspecified(buffer)))
    \/ Apply("ipv6_addr", "value", "is_link_local", Ok(ipv6_is_link_local(buffer)))
    \/ Apply("ipv6_addr", "value", "is_private", Ok(ipv6_is_private(buffer)))
    \/ Apply("ipv6_addr", "value", "is_loopback", Ok(ipv6_is_loopback(buffer)))
    \/ Apply("ipv6_addr", "value", "is_ipv4_mapped", Ok(ipv6_is_ipv4_mapped(buffer)))
    \/ Apply("ipv6_addr", "value", "is_solicited_node_multicast", Ok(ipv6_is_solicited_node_multicast(buffer)))
    \/ Apply("ipv6_addr", "value", "to_segments", Ok(ipv6_to_segments(buffer)))
    \/ IPv6_ToString
    \/ IPv6_ToStringScan
    \/ IPv6_ToStringReturn
    \/ IPv6_FromStringOfString

AddrSpec == AddrInit /\ [][AddrNext]_vars

(***************************************************************************)
(* parsers/ipv4.rs: verify_checksum turn by turn, on headers of up to 30   *)
(* words.  `result` holds the loop variable i and the running sum between  *)
(* the turns.                                                              *)
(***************************************************************************)
ChecksumWords == {0, 1, 32768, 65535}

RECURSIVE WordsToOctets(_)
WordsToOctets(ws) ==
    IF ws = << >> THEN << >> ELSE ToBe16(Head(ws)) \o WordsToOctets(Tail(ws))

\* headers of nib words pairs: the words up to the p-th are a, the later ones
\* b; the buffer ends d octets after the header (before it when d < 0)
ChecksumInputs ==
    { LET n == 2 * nib
          octets == << 64 + nib, low >>
                    \o WordsToOctets([k \in 1..(n - 1) |-> IF k < p THEN a ELSE b])
                    \o << 0 >>
      IN  SubSeq(octets, 1, 2 * n + d) :
        nib \in {4, 5, 6, 10, 15}, low \in {0, 255}, p \in 1..30,
        a \in ChecksumWords, b \in ChecksumWords, d \in {-1, 0, 1} }

VC_Init ==
    /\ layer = "verify_checksum"
    /\ buffer \in ChecksumInputs
    /\ view = "plain"
    /\ op = NoOp
    /\ result = None
    /\ window = NoWindow

\* verify_checksum up to its loop
VC_Begin ==
    /\ result = None
    /\ LET ihl == IPv4_ihl(buffer).val
       IN  result' = IF ihl < 20 \/ ihl > Len(buffer)
                     THEN Err("ValidationError::InvalidHeaderLength")
                     ELSE [tag |-> "scan", val |-> [i |-> 0, sum |-> 0]]
    /\ op' = [name |-> "verify_checksum", arg |-> Unit]
    /\ UNCHANGED << layer, buffer, view, window >>

\* one turn of the loop over (0..ihl).step_by(2)
VC_Turn ==
    /\ result.tag = "scan"
    /\ result.val.i < IPv4_ihl(buffer).val
    /\ LET i == result.val.i
       IN  IF i # 10 /\ i + 2 > Len(buffer)
           THEN /\ result' = Err("ParsingError::InvalidPacketLength")
                /\ op' = [name |-> "verify_checksum", arg |-> Unit]
           ELSE LET word == ChecksumWord(buffer, i)
                IN  /\ result' = [tag |-> "scan",
                                  val |-> [i |-> i + 2,
                                           sum |-> ChecksumStep(result.val.sum, word)]]
                    /\ op' = [name |-> "verify_checksum", arg |-> word]
    /\ UNCHANGED << layer, buffer, view, window >>

\* the loop is over: Ok(sum == 0xFFFF)
VC_Return ==
    /\ result.tag = "scan"
    /\ result.val.i >= IPv4_ihl(buffer).val
    /\ result' = Ok(result.val.sum = 65535)
    /\ op' = [name |-> "verify_checksum", arg |-> Unit]
    /\ UNCHANGED << layer, buffer, view, window >>

VC_Next == VC_Begin \/ VC_Turn \/ VC_Return

ChecksumSpec == VC_Init /\ [][VC_Next]_vars

(***************************************************************************)
(* iface/tap.rs: the Tap actor.  `buffer` holds the actor and what runs    *)
(* around it on its arbiter thread:                                        *)
(*   device   the slot Arc<Mutex<Option<File>>>: << >> or << file >>       *)
(*   mailbox  the messages sent to the actor and not yet handled           *)
(*   futures  the response futures the handlers have returned, each with   *)
(*            its position: "start" before its first poll, "io" while it   *)
(*            awaits the file with the MutexGuard held                     *)
(*   files    how many files the openers have opened                       *)
(*   io       how many reads and writes have been started on a file        *)
(*   sent     how many messages the clients have sent                      *)
(* `view` is "running", or "deadlock" once the thread waits for a mutex    *)
(* that a suspended future of the same thread holds (std::sync::Mutex      *)
(* blocks for ever on unix).  No code path panics with the guard held, so  *)
(* the mutex is never poisoned.  `result` is the last reply.               *)
(***************************************************************************)
MaxSends == 4

Message(type, id, opener, data, device) ==
    [type |-> type, id |-> id, opener |-> opener, data |-> data, device |-> device]

\* the messages of the tests, with both openers
ClientMessages(id) ==
    { Message("OpenTap", id, "MockDevice", << >>, 0),
      Message("OpenTap", id, "MockFailingDevice", << >>, 0),
      Message("ReadMessage", id, "", << >>, 0),
      Message("WriteMessage", id, "", << 222, 173, 190, 239 >>, 0) }

UpdateDevice(file) == Message("UpdateDevice", 0, "", << >>, file)

ResponseFuture(msg) ==
    [id |-> msg.id, kind |-> msg.type, pc |-> "start", opener |-> msg.opener,
     data |-> msg.data]

\* a future suspended in file.read or file.write_all holds the MutexGuard
LockHeld == \E f \in buffer.futures : f.pc = "io"

NotFound == Err("NotFound: Device not found")

Tap_new ==
    [device |-> << >>, mailbox |-> << >>, futures |-> {}, files |-> 0,
     io |-> 0, sent |-> 0]

Tap_Init ==
    /\ layer = "tap"
    /\ buffer = Tap_new
    /\ view = "running"
    /\ op = NoOp
    /\ result = None
    /\ window = NoWindow

\* tap_actor.send(msg)
Tap_Send(msg) ==
    /\ view = "running"
    /\ buffer.sent < MaxSends
    /\ buffer' = [buffer EXCEPT !.mailbox = Append(@, msg), !.sent = @ + 1]
    /\ op' = [name |-> msg.type, arg |-> "send"]
    /\ UNCHANGED << layer, view, result, window >>

\* Handler<OpenTap>::handle: the opener's future is made and boxed
Tap_HandleOpenTap ==
    /\ view = "running"
    /\ buffer.mailbox # << >>
    /\ Head(buffer.mailbox).type = "OpenTap"
    /\ buffer' = [buffer EXCEPT !.mailbox = Tail(@),
                                !.futures = @ \cup {ResponseFuture(Head(buffer.mailbox))}]
    /\ op' = [name |-> "OpenTap", arg |-> "handle"]
    /\ UNCHANGED << layer, view, result, window >>

\* the future of Handler<OpenTap> that also sends UpdateDevice when the opener
\* has failed
Tap_OpenTapResolve_always ==
    /\ view = "running"
    /\ \E f \in buffer.futures :
          /\ f.kind = "OpenTap"
          /\ buffer' = [buffer EXCEPT !.futures = @ \ {f},
                                      !.files = @ + 1,
                                      !.mailbox = Append(@, UpdateDevice(f.id))]
          /\ result' = IF f.opener = "MockDevice" THEN Ok(Unit)
                       ELSE Err("Mocked device open failure")
    /\ op' = [name |-> "OpenTap", arg |-> "reply"]
    /\ UNCHANGED << layer, view, window >>

\* the future of Handler<OpenTap>: match device_future.await
Tap_OpenTapResolve ==
    /\ view = "running"
    /\ \E f \in buffer.futures :
          /\ f.kind = "OpenTap"
          /\ IF f.opener = "MockDevice"
             THEN /\ buffer' = [buffer EXCEPT !.futures = @ \ {f},
                                              !.files = @ + 1,
                                              !.mailbox = Append(@, UpdateDevice(f.id))]
                  /\ result' = Ok(Unit)
             ELSE /\ buffer' = [buffer EXCEPT !.futures = @ \ {f}]
                  /\ result' = Err("Mocked device open failure")
    /\ op' = [name |-> "OpenTap", arg |-> "reply"]
    /\ UNCHANGED << layer, view, window >>

\* Handler<UpdateDevice>::handle; its result goes to nobody (do_send)
Tap_HandleUpdateDevice ==
    /\ view = "running"
    /\ buffer.mailbox # << >>
    /\ Head(buffer.mailbox).type = "UpdateDevice"
    /\ IF LockHeld
       THEN /\ view' = "deadlock"
            /\ op' = [name |-> "UpdateDevice", arg |-> "lock"]
            /\ UNCHANGED << buffer, result >>
       ELSE /\ buffer' = [buffer EXCEPT !.mailbox = Tail(@),
                                        !.device = << Head(buffer.mailbox).device >>]
            /\ op' = [name |-> "UpdateDevice", arg |-> "handle"]
            /\ result' = Ok(Unit)
            /\ UNCHANGED view
    /\ UNCHANGED << layer, window >>

\* Handler<ReadMessage>::handle and Handler<WriteMessage>::handle: the Arc is
\* cloned and the future boxed
Tap_HandleIo(type) ==
    /\ view = "running"
    /\ buffer.mailbox # << >>
    /\ Head(buffer.mailbox).type = type
    /\ buffer' = [buffer EXCEPT !.mailbox = Tail(@),
                                !.futures = @ \cup {ResponseFuture(Head(buffer.mailbox))}]
    /\ op' = [name |-> type, arg |-> "handle"]
    /\ UNCHANGED << layer, view, result, window >>

\* the first poll that starts the read or write without looking at the slot
Tap_IoPoll_blind(type) ==
    /\ view = "running"
    /\ \E f \in buffer.futures :
          /\ f.kind = type /\ f.pc = "start"
          /\ buffer' = [buffer EXCEPT
                           !.futures = (@ \ {f}) \cup {[f EXCEPT !.pc = "io"]},
                           !.io = @ + 1]
          /\ op' = [name |-> type, arg |-> "await"]
          /\ UNCHANGED << view, result >>
    /\ UNCHANGED << layer, window >>

\* the first poll of the future of a read or write: device.lock(), then
\* device.as_mut()
Tap_IoPoll(type) ==
    /\ view = "running"
    /\ \E f \in buffer.futures :
          /\ f.kind = type /\ f.pc = "start"
          /\ IF LockHeld
             THEN /\ view' = "deadlock"
                  /\ op' = [name |-> type, arg |-> "lock"]
                  /\ UNCHANGED << buffer, result >>
             ELSE IF buffer.device = << >>
             THEN /\ buffer' = [buffer EXCEPT !.futures = @ \ {f}]
                  /\ op' = [name |-> type, arg |-> "reply"]
                  /\ result' = NotFound
                  /\ UNCHANGED view
             ELSE /\ buffer' = [buffer EXCEPT
                                   !.futures = (@ \ {f}) \cup {[f EXCEPT !.pc = "io"]},
                                   !.io = @ + 1]
                  /\ op' = [name |-> type, arg |-> "await"]
                  /\ UNCHANGED << view, result >>
    /\ UNCHANGED << layer, window >>

\* what file.read(&mut buf) then buf.truncate(n), or file.write_all(&data),
\* can give
IoOutcomes(f) ==
    IF f.kind = "ReadMessage"
    THEN {Ok(<< >>), Ok(<< 222, 173, 190, 239 >>), Err("io::Error")}
    ELSE {Ok(Unit), Err("io::Error")}

\* the read or write completes: the reply is sent and the guard dropped
Tap_IoDone(type) ==
    /\ view = "running"
    /\ \E f \in buffer.futures :
          /\ f.kind = type /\ f.pc = "io"
          /\ buffer' = [buffer EXCEPT !.futures = @ \ {f}]
          /\ result' \in IoOutcomes(f)
    /\ op' = [name |-> type, arg |-> "reply"]
    /\ UNCHANGED << layer, view, window >>

Tap_Next ==
    \/ \E msg \in ClientMessages(buffer.sent + 1) : Tap_Send(msg)
    \/ Tap_HandleOpenTap
    \/ Tap_OpenTapResolve
    \/ Tap_HandleUpdateDevice
    \/ Tap_HandleIo("ReadMessage")
    \/ Tap_HandleIo("WriteMessage")
    \/ Tap_IoPoll("ReadMessage")
    \/ Tap_IoPoll("WriteMessage")
    \/ Tap_IoDone("ReadMessage")
    \/ Tap_IoDone("WriteMessage")

TapSpec == Tap_Init /\ [][Tap_Next]_vars

(***************************************************************************)
(* Properties.  The fields below are read straight from the octets.        *)
(***************************************************************************)
RawIhl == (buffer[1] % 16) * 4
RawTotalLength == buffer[3] * 256 + buffer[4]
RawChecksum == buffer[11] * 256 + buffer[12]
RawPayloadLength == buffer[5] * 256 + buffer[6]

\* C1: IPv4Packet::new_with_validation applies its checks in a fixed order and
\* the first failing one decides the error: fewer than 20 octets gives
\* InvalidHeaderLength; else total_length > buffer length gives
\* TotalLengthExceedsBufferLength; else IHL*4 < 20 or > total_length gives
\* InvalidHeaderLength; else the view is returned.
C1_ValidationOrder ==
    (layer = "ipv4" /\ op.name = "new_with_validation") =>
        /\ result =
             IF Len(buffer) < 20
             THEN Err("ValidationError::InvalidHeaderLength")
             ELSE IF RawTotalLength > Len(buffer)
             THEN Err("ValidationError::TotalLengthExceedsBufferLength")
             ELSE IF RawIhl < 20 \/ RawIhl > RawTotalLength
             THEN Err("ValidationError::InvalidHeaderLength")
             ELSE Ok(Unit)
        /\ (view = "validated") <=> IsOk(result)
        /\ Len(buffer) = 1 => IsErr(result)
        /\ (Len(buffer) = 20 /\ RawTotalLength = 20 /\ RawIhl = 20) => IsOk(result)

\* a buffer whose total length exceeds it and whose IHL is below 5 as well:
\* the total-length check decides
C1_Witness ==
    /\ layer = "ipv4" /\ op.name = "new_with_validation"
    /\ Len(buffer) >= 20 /\ RawTotalLength > Len(buffer) /\ RawIhl < 20
    /\ result = Err("ValidationError::TotalLengthExceedsBufferLength")

\* C2: for every IPv4 header of IHL*4 in 20..60 inside the buffer whose stored
\* checksum is the complement of the one's-complement sum of all other header
\* words, verify_checksum returns Ok(true).
C2_CorrectChecksumVerifies ==
    ( /\ layer = "ipv4" /\ op.name = "verify_checksum"
      /\ Len(buffer) >= 20 /\ RawIhl >= 20 /\ RawIhl <= 60 /\ RawIhl <= Len(buffer)
      /\ RawChecksum = HeaderChecksum(buffer, RawIhl) )
    => (IsOk(result) /\ result.val = TRUE)

\* buf with bit k (0 = most significant bit of octet 0) inverted
FlipBit(buf, k) ==
    LET i == k \div 8
        w == 2 ^ (7 - (k % 8))
        b == At(buf, i)
    IN  Put(buf, i, IF (b \div w) % 2 = 1 THEN b - w ELSE b + w)

\* C3: from any header for which verify_checksum returns Ok(true), inverting
\* any single bit of the header, the checksum field included, makes
\* verify_checksum return Ok(false).
C3_BitFlipDetected ==
    ( /\ layer = "ipv4" /\ op.name = "verify_checksum"
      /\ IsOk(result) /\ result.val = TRUE )
    => \A k \in 0..(RawIhl * 8 - 1) :
          LET r == IPv4_verify_checksum(FlipBit(buffer, k))
          IN  IsOk(r) /\ r.val = FALSE

\* C4: for every buffer accepted by new_with_validation, payload() is Ok with
\* exactly the octets [header_length, total_length): total_length -
\* header_length of them, none of the octets past total_length.
C4_PayloadRange ==
    (layer = "ipv4" /\ view = "validated" /\ op.name = "payload") =>
        /\ IsOk(result)
        /\ Len(result.val) = RawTotalLength - RawIhl
        /\ \A i \in 1..(RawTotalLength - RawIhl) :
              result.val[i] = buffer[RawIhl + i]

\* a validated buffer with options, a payload and padding after total_length
C4_Witness ==
    /\ layer = "ipv4" /\ view = "validated" /\ op.name = "payload"
    /\ RawIhl > 20 /\ RawTotalLength > RawIhl /\ Len(buffer) > RawTotalLength
    /\ IsOk(result) /\ Len(result.val) > 0

\* C5: on a buffer of any length wrapped by the plain constructor of
\* EthernetFrame, ArpPacket, IPv4Packet or IPv6Packet, and for the builder's
\* mut_payload_ref, every operation returns a value or an error value and
\* never panics.
C5_NoPanicOnAnyBuffer ==
    ( \/ view = "plain" /\ op.name \notin {"Hardware::from", "Operation::from"}
      \/ op.name = "mut_payload_ref" )
    => ~IsPanic(result)

\* C6: converting any 16-bit ARP hardware-type or operation code to Hardware /
\* Operation yields a value or an error and never panics.
C6_ArpCodeNeverAborts ==
    op.name \in {"Hardware::from", "Operation::from"} => ~IsPanic(result)

\* C7: IPv6Packet::new_with_validation succeeds exactly when the buffer holds
\* at least 40 octets and at least 40 + payload_length; otherwise, buffers of
\* fewer than 6 octets included, it fails with the InvalidPacketLength
\* validation error.
C7_IPv6Validation ==
    (layer = "ipv6" /\ op.name = "new_with_validation") =>
        /\ result =
             IF Len(buffer) >= 40 /\ Len(buffer) >= 40 + RawPayloadLength
             THEN Ok(Unit)
             ELSE Err("ValidationError::InvalidPacketLength")
        /\ (view = "validated") <=> IsOk(result)

\* a buffer too short to hold the payload-length field is rejected
C7_Witness ==
    /\ layer = "ipv6" /\ op.name = "new_with_validation"
    /\ Len(buffer) < 6
    /\ result = Err("ValidationError::InvalidPacketLength")

\* C8: for every buffer accepted by IPv6Packet validation, payload() is exactly
\* the octets [40, 40 + payload_length), also when the buffer holds more.
C8_IPv6PayloadRange ==
    (layer = "ipv6" /\ view = "validated" /\ op.name = "payload") =>
        /\ IsOk(result)
        /\ Len(result.val) = RawPayloadLength
        /\ \A i \in 1..RawPayloadLength : result.val[i] = buffer[40 + i]

\* the field width a header setter writes
FieldModulus(name) ==
    CASE name = "set_version" -> 16
      [] name = "set_traffic_class" -> 256
      [] OTHER -> 1048576

\* what the decoder reads for the field a header setter writes
FieldRead(name, buf) ==
    CASE name = "set_version" -> IPv6_version(buf)
      [] name = "set_traffic_class" -> IPv6_traffic_class(buf)
      [] OTHER -> IPv6_flow_label(buf)

HeaderSetters == {"set_version", "set_traffic_class", "set_flow_label"}

\* C9: after each set_version, set_traffic_class or set_flow_label call of the
\* builder the decoder reads the written field as the written value truncated
\* to the field width (4, 8, 20 bits), reads the two sibling fields as before
\* the call, and octets 4 and above are unchanged.
C9_SetterStep ==
    (op'.name \in HeaderSetters /\ IsOk(result')) =>
        /\ FieldRead(op'.name, buffer') = Ok(op'.arg % FieldModulus(op'.name))
        /\ \A sib \in HeaderSetters \ {op'.name} :
              FieldRead(sib, buffer') = FieldRead(sib, buffer)
        /\ Len(buffer') = Len(buffer)
        /\ \A i \in 5..Len(buffer) : buffer'[i] = buffer[i]

C9_SettersKeepSiblings == [][C9_SetterStep]_vars

\* a flow label wider than 20 bits written after version and traffic class
C9_Witness ==
    /\ op.name = "set_flow_label" /\ IsOk(result) /\ op.arg > 1048575
    /\ IPv6_version(buffer) = Ok(6)
    /\ IPv6_traffic_class(buffer) = Ok(153)
    /\ IPv6_flow_label(buffer) = Ok(op.arg % 1048576)

\* C10: each mut_payload_ref returns the window [40, 40 + L) with L the payload
\* length held in octets 4-5 at that call; a window the caller holds is sized
\* by that L and never by a length written later; a write through the window
\* changes no octet of 0..40.
C10_WindowStep ==
    /\ (op'.name = "mut_payload_ref" /\ IsOk(result')) =>
          /\ result'.val = [lo |-> 40, hi |-> 40 + RawPayloadLength]
          /\ window' = result'.val
          /\ buffer' = buffer
    /\ window' # NoWindow =>
          /\ window'.lo = 40
          /\ window'.hi = 40 + (buffer'[5] * 256 + buffer'[6])
          /\ window'.hi <= Len(buffer')
    /\ op'.name = "set_payload_length" => window' = NoWindow
    /\ op'.name = "window_write" =>
          /\ Len(buffer') = Len(buffer)
          /\ \A i \in 1..40 : buffer'[i] = buffer[i]

C10_WindowSizedAtCall == [][C10_WindowStep]_vars

\* a write through a two-octet window taken after set_payload_length(2)
C10_Witness ==
    /\ op.name = "window_write" /\ window = [lo |-> 40, hi |-> 42]
    /\ RawPayloadLength = 2
    /\ buffer[42] = 222

\* the fixed header a checking constructor demands
FixedHeader(l) == IF l = "eth" THEN 14 ELSE 28

\* C11: EthernetFrame / ArpPacket new_with_validation fails with
\* ParsingError::BufferUnderflow exactly when the buffer is shorter than the
\* fixed header (14 / 28 octets) and succeeds otherwise; on a validated view
\* no accessor panics, ethertype is the big-endian value of octets 12-13 and
\* payload is the octets [14, len).
C11_FixedHeaderValidation ==
    /\ (layer \in {"eth", "arp"} /\ op.name = "new_with_validation") =>
          /\ result = IF Len(buffer) < FixedHeader(layer)
                      THEN Err("ParsingError::BufferUnderflow")
                      ELSE Ok(Unit)
          /\ (view = "validated") <=> IsOk(result)
    /\ (layer \in {"eth", "arp"} /\ view = "validated") =>
          /\ Len(buffer) >= FixedHeader(layer)
          /\ op.name \notin {"Hardware::from", "Operation::from"}
                => ~IsPanic(result)
    /\ (layer = "eth" /\ view = "validated" /\ op.name = "ethertype") =>
          result = Ok(buffer[13] * 256 + buffer[14])
    /\ (layer = "eth" /\ view = "validated" /\ op.name = "payload") =>
          result = Ok(SubSeq(buffer, 15, Len(buffer)))

\* the payload of a validated frame of exactly 14 octets is empty
C11_Witness ==
    /\ layer = "eth" /\ view = "validated" /\ op.name = "payload"
    /\ Len(buffer) = 14
    /\ result = Ok(<< >>)

\* C13: on a view made by IPv4Packet::new, key() returns an error value and
\* never panics when the buffer holds fewer than 20 octets, and otherwise
\* returns identification = octets 4-5, source = octets [12, 16),
\* destination = octets [16, 20), protocol = octet 9.
C13_KeyTotal ==
    (layer = "ipv4" /\ view = "plain" /\ op.name = "key") =>
        IF Len(buffer) < 20
        THEN IsErr(result)
        ELSE result = Ok([id |-> buffer[5] * 256 + buffer[6],
                          src_addr |-> SubSeq(buffer, 13, 16),
                          dst_addr |-> SubSeq(buffer, 17, 20),
                          protocol |-> buffer[10]])

EthSetters == {"set_destination", "set_source", "set_ethertype"}

\* the octets (1-based positions) a builder operation owns
EthRange(name, len) ==
    CASE name = "set_destination" -> 1..6
      [] name = "set_source" -> 7..12
      [] name = "set_ethertype" -> 13..14
      [] OTHER -> 15..len

\* C12: on a buffer of at least 14 octets each of set_destination, set_source,
\* set_ethertype and each payload write, in any order, returns and changes
\* only its own octets (0..6, 6..12, 12..14, 14..len); the EthernetFrame view
\* then decodes the value just written and decodes the other three fields as
\* before the call, so the finished buffer decodes to what was written.
C12_EthStep ==
    (Len(buffer) >= 14 /\ op'.name \in EthSetters \cup {"window_write"}) =>
        /\ IsOk(result')
        /\ Len(buffer') = Len(buffer)
        /\ \A i \in (1..Len(buffer)) \ EthRange(op'.name, Len(buffer)) :
              buffer'[i] = buffer[i]
        /\ op'.name = "set_destination" =>
              Eth_destination(buffer') = Ok(MacAddress_to_bytes(op'.arg))
        /\ op'.name = "set_source" =>
              Eth_source(buffer') = Ok(MacAddress_to_bytes(op'.arg))
        /\ op'.name = "set_ethertype" =>
              Eth_ethertype(buffer') = Ok(EtherType_as_u16(op'.arg))
        /\ op'.name = "window_write" =>
              /\ result' = Ok(Unit)
              /\ Eth_payload(buffer').val[op'.arg + 1] = 170
        /\ op'.name # "set_destination" =>
              Eth_destination(buffer') = Eth_destination(buffer)
        /\ op'.name # "set_source" =>
              Eth_source(buffer') = Eth_source(buffer)
        /\ op'.name # "set_ethertype" =>
              Eth_ethertype(buffer') = Eth_ethertype(buffer)
        /\ op'.name # "window_write" =>
              Eth_payload(buffer') = Eth_payload(buffer)

C12_EthBuilderRoundTrip == [][C12_EthStep]_vars

\* the frame of construct_ethernet_frame with EtherType IPv6, written in the
\* order payload, EtherType, source, destination, payload
C12_Witness ==
    /\ layer = "eth_builder" /\ op.name = "window_write" /\ Len(buffer) = 16
    /\ Eth_destination(buffer) = Ok(<< 1, 2, 3, 4, 5, 6 >>)
    /\ Eth_source(buffer) = Ok(<< 17, 18, 19, 20, 21, 22 >>)
    /\ Eth_ethertype(buffer) = Ok(34525)
    /\ Eth_payload(buffer) = Ok(<< 170, 170 >>)

HexChars == { HexLower[i] : i \in 1..16 } \cup { HexUpper[i] : i \in 1..16 }

\* the 48-bit value of twelve hexadecimal digits, most significant first
Hex12Value(digits) ==
    << 0, 0 >> \o [k \in 1..6 |-> 16 * ToDigit(digits[2 * k - 1], 16)
                                  + ToDigit(digits[2 * k], 16)]

\* C18: MacAddress parse depends only on the text left after removing every
\* ':', '-' and '.': it succeeds exactly when that remainder is 12 hexadecimal
\* digits, returning their 48-bit big-endian value; a remainder of another
\* length fails with InvalidLength and a 12-character remainder holding a
\* character that is no hexadecimal digit fails with InvalidCharacter.
C18_MacParse ==
    (layer = "mac" /\ op.name = "parse") =>
        LET rest == StrRemove(buffer, {":", "-", "."})
        IN  IF Len(rest) # 12
            THEN result = Err("MacAddressParseError::InvalidLength")
            ELSE IF \A i \in 1..12 : rest[i] \in HexChars
            THEN result.tag = "ok" /\ result.val = Hex12Value(rest)
            ELSE result = Err("MacAddressParseError::InvalidCharacter")

\* C19: for every MAC address m below 2^48, parse(to_string(m)) is m, and
\* to_bytes(m) is the six low octets of m, most significant first, each equal
\* to the matching pair of hexadecimal digits of to_string(m).
C19_MacRoundTrip ==
    /\ (layer = "mac" /\ op.name = "parse(to_string)"
        /\ buffer[1] = 0 /\ buffer[2] = 0) =>
          result.tag = "ok" /\ result.val = buffer
    /\ (layer = "mac" /\ op.name = "to_bytes") =>
          /\ result.val = SubSeq(buffer, 3, 8)
          /\ LET s == MacAddress_to_string(buffer)
             IN  /\ Len(s) = 17
                 /\ \A k \in 1..6 :
                       result.val[k] = 16 * ToDigit(s[3 * k - 2], 16)
                                       + ToDigit(s[3 * k - 1], 16)

\* an address with octets below 16, printed with their zero padding
C19_Witness ==
    /\ layer = "mac" /\ op.name = "parse(to_string)"
    /\ buffer = << 0, 0, 0, 10, 165, 255, 0, 10 >>
    /\ result = Ok(buffer)

DecDigits == { HexLower[i] : i \in 1..10 }

RECURSIVE DecValue(_)
DecValue(digits) ==
    IF digits = << >> THEN 0
    ELSE DecValue(SubSeq(digits, 1, Len(digits) - 1)) * 10
         + ToDigit(digits[Len(digits)], 10)

\* the digits of a part, without its optional '+' sign
Unsigned(part) == IF part # << >> /\ Head(part) = "+" THEN Tail(part) ELSE part

\* a decimal integer, signed '+' or unsigned, in 0..255
IsDecimalOctet(part) ==
    /\ Unsigned(part) # << >>
    /\ \A i \in 1..Len(Unsigned(part)) : Unsigned(part)[i] \in DecDigits
    /\ DecValue(Unsigned(part)) <= 255

Dots(s) == Cardinality({ i \in 1..Len(s) : s[i] = "." })

\* C20: IPv4 from_string never panics: it returns InvalidLength exactly when
\* splitting the text on '.' does not give 4 parts, otherwise InvalidCharacter
\* when some part is not a decimal integer in 0..255 (empty, non-numeric or
\* out of range), otherwise the address of the four parsed octets in order.
C20_IPv4FromString ==
    (layer = "ipv4_addr" /\ op.name = "from_string") =>
        /\ ~IsPanic(result)
        /\ IF Dots(buffer) # 3
           THEN result = Err("IPv4AddressError::InvalidLength")
           ELSE LET parts == StrSplit(buffer, ".")
                IN  IF \E i \in 1..4 : ~IsDecimalOctet(parts[i])
                    THEN result = Err("IPv4AddressError::InvalidCharacter")
                    ELSE /\ result.tag = "ok"
                         /\ result.val =
                              [i \in 1..4 |-> DecValue(Unsigned(parts[i]))]

\* four parts, one of them out of range
C20_Witness ==
    /\ layer = "ipv4_addr" /\ op.name = "from_string"
    /\ buffer = << "0", ".", "2", "5", "6", ".", "0", ".", "2", "5", "5" >>
    /\ result = Err("IPv4AddressError::InvalidCharacter")

\* C14: for every 16-octet IPv6 address a, from_string(to_string(a)) is a, for
\* the text of the zero-compressing scan ("::", "::1", zero groups in the
\* middle or at the end) and for the IPv4-mapped text ::ffff:a.b.c.d.
C14_IPv6RoundTrip ==
    (layer = "ipv6_addr" /\ op.name = "from_string(to_string)") =>
        result.tag = "ok" /\ result.val = buffer

\* a first zero group compressed and later zero groups printed
C14_Witness ==
    /\ layer = "ipv6_addr" /\ op.name = "from_string(to_string)"
    /\ ipv6_to_segments(buffer) = << 8193, 0, 34211, 0, 0, 35374, 0, 29492 >>
    /\ result = Ok(buffer)

ScanRank(state) ==
    CASE state = "Head" -> 0
      [] state = "HeadBody" -> 1
      [] state = "Tail" -> 2
      [] state = "TailBody" -> 3

\* how often "::" stands in a text
DoubleColons(s) ==
    Cardinality({ i \in 1..(Len(s) - 1) : s[i] = ":" /\ s[i + 1] = ":" })

\* how many groups a text prints
Numerals(s) ==
    Cardinality({ i \in 1..Len(s) :
                    s[i] \in HexChars /\ (i = 1 \/ s[i - 1] \notin HexChars) })

\* the length of the first run of zero groups among the first n groups
FirstZeroRun(segments, n) ==
    LET zeros == { k \in 1..n : segments[k] = 0 }
    IN  IF zeros = {} THEN 0
        ELSE LET a == CHOOSE k \in zeros : \A j \in zeros : k <= j
             IN  Cardinality({ k \in a..n : \A j \in a..k : segments[j] = 0 })

\* C15: in the scan of to_string over the 8 groups of an address that is not
\* IPv4-mapped, "::" has been emitted exactly once as soon as a zero group has
\* been scanned and never before; the state never moves back in the order
\* Head, HeadBody, Tail, TailBody; every group scanned is either printed or is
\* a zero group skipped under the "::", so that at the end the printed and the
\* skipped groups are 8.
C15_ScanTurn ==
    (result.tag = "scan" /\ result'.tag \in {"scan", "ok"}) =>
        LET segments == ipv6_to_segments(buffer)
            before == result.val
            out == IF result'.tag = "scan" THEN result'.val.out ELSE result'.val
            n == IF result'.tag = "scan" THEN result'.val.i ELSE 8
        IN  /\ ~ipv6_is_ipv4_mapped(buffer)
            /\ result'.tag = "scan" =>
                  /\ n = before.i + 1
                  /\ ScanRank(result'.val.state) >= ScanRank(before.state)
                  /\ out = before.out => segments[n] = 0 /\ before.state = "Tail"
            /\ result'.tag = "ok" => before.i = 8 /\ out = before.out
            /\ DoubleColons(out) =
                  IF \E k \in 1..n : segments[k] = 0 THEN 1 ELSE 0
            /\ Numerals(out) + FirstZeroRun(segments, n) = n

C15_ScanAccounts == [][C15_ScanTurn]_vars

\* the scan at its end: one group under the "::", seven printed, three of
\* them zero
C15_Witness ==
    /\ layer = "ipv6_addr" /\ result.tag = "scan" /\ result.val.i = 8
    /\ ipv6_to_segments(buffer) = << 8193, 0, 34211, 0, 0, 35374, 0, 29492 >>
    /\ result.val.state = "TailBody"
    /\ DoubleColons(result.val.out) = 1
    /\ Numerals(result.val.out) = 7

\* C16: is_solicited_node_multicast is true for every address with octet 0 =
\* 0xff, octet 1 = 0x02, octet 11 = 0x01, octet 12 = 0xff whose octets 13, 14
\* and 15 are each nonzero (such as 0x01, 0x02, 0x04), and false when one of
\* the four fixed octets differs.
C16_SolicitedNode ==
    (layer = "ipv6_addr" /\ op.name = "is_solicited_node_multicast") =>
        LET fixed == /\ buffer[1] = 255 /\ buffer[2] = 2
                     /\ buffer[12] = 1 /\ buffer[13] = 255
        IN  /\ (fixed /\ buffer[14] # 0 /\ buffer[15] # 0 /\ buffer[16] # 0)
                  => result = Ok(TRUE)
            /\ ~fixed => result = Ok(FALSE)

Classes == {"is_link_local", "is_private", "is_multicast", "is_global_unicast",
            "is_loopback", "is_unspecified"}

ClassOf(name, addr) ==
    CASE name = "is_link_local" -> ipv6_is_link_local(addr)
      [] name = "is_private" -> ipv6_is_private(addr)
      [] name = "is_multicast" -> ipv6_is_multicast(addr)
      [] name = "is_global_unicast" -> ipv6_is_global_unicast(addr)
      [] name = "is_loopback" -> ipv6_is_loopback(addr)
      [] name = "is_unspecified" -> ipv6_is_unspecified(addr)

\* C17: for every 16-octet IPv6 address at most one of link-local,
\* unique-local (private), multicast, global-unicast, loopback and unspecified
\* holds: when one of the six tests answers true the other five are false.
C17_ClassesExclusive ==
    (layer = "ipv6_addr" /\ op.name \in Classes /\ result = Ok(TRUE)) =>
        \A other \in Classes \ {op.name} : ~ClassOf(other, buffer)

\* a unique-local address of prefix fd00::/8
C17_Witness ==
    /\ layer = "ipv6_addr" /\ op.name = "is_private" /\ result = Ok(TRUE)
    /\ buffer[1] = 253

\* C21: for every 4-octet IPv4 address x, from_string(to_string(x)) is x and
\* from_u32(to_u32(x)) is x, where to_u32(x) is the big-endian integer of the
\* octets: its high half is x[0] * 256 + x[1] and its low half x[2] * 256 + x[3]
\* (192.168.1.1 gives 0xC0A8 and 0x0101).
C21_IPv4RoundTrip ==
    /\ (layer = "ipv4_addr" /\ op.name = "from_string(to_string)") =>
          result.tag = "ok" /\ result.val = buffer
    /\ (layer = "ipv4_addr" /\ op.name = "from_u32(to_u32)") =>
          result.tag = "ok" /\ result.val = buffer
    /\ (layer = "ipv4_addr" /\ op.name = "to_u32") =>
          /\ result.val[1] \div 256 = buffer[1] /\ result.val[1] % 256 = buffer[2]
          /\ result.val[2] \div 256 = buffer[3] /\ result.val[2] % 256 = buffer[4]
          /\ (buffer = << 192, 168, 1, 1 >> => result.val = << 49320, 257 >>)

\* 192.168.1.1 came back from its integer 0xC0A80101
C21_Witness ==
    /\ layer = "ipv4_addr" /\ op.name = "from_u32(to_u32)"
    /\ buffer = << 192, 168, 1, 1 >>
    /\ result = Ok(buffer)

V4Classes == {"is_broadcast", "is_multicast", "is_unspecified", "is_unicast"}

V4ClassOf(name, addr) ==
    CASE name = "is_broadcast" -> ipv4_is_broadcast(addr)
      [] name = "is_multicast" -> ipv4_is_multicast(addr)
      [] name = "is_unspecified" -> ipv4_is_unspecified(addr)
      [] name = "is_unicast" -> ipv4_is_unicast(addr)

\* C29: for every IPv4 address exactly one of is_broadcast, is_multicast,
\* is_unspecified and is_unicast holds (a test that answers true excludes the
\* other three, a test that answers false leaves one of the others true), and
\* every private, loopback or link-local address is unicast.
C29_IPv4Classes ==
    /\ (layer = "ipv4_addr" /\ op.name \in V4Classes /\ result = Ok(TRUE)) =>
          \A other \in V4Classes \ {op.name} : ~V4ClassOf(other, buffer)
    /\ (layer = "ipv4_addr" /\ op.name \in V4Classes /\ result = Ok(FALSE)) =>
          Cardinality({ other \in V4Classes \ {op.name} : V4ClassOf(other, buffer) }) = 1
    /\ (layer = "ipv4_addr"
        /\ op.name \in {"is_private", "is_loopback", "is_link_local"}
        /\ result = Ok(TRUE)) =>
          /\ ipv4_is_unicast(buffer)
          /\ \A other \in V4Classes \ {"is_unicast"} : ~V4ClassOf(other, buffer)

\* 172.31.x.x, the upper edge of the second private range, is private
C29_Witness ==
    /\ layer = "ipv4_addr" /\ op.name = "is_private" /\ result = Ok(TRUE)
    /\ buffer[1] = 172 /\ buffer[2] = 31

\* the MacAddress of the low 48 bits of m
Low48(m) == << 0, 0 >> \o SubSeq(m, 3, 8)

\* C30: every MacAddress returned by parse is below 2^48, whereas new() keeps
\* any 64-bit value; for a value m with bits above bit 47 set, to_bytes and
\* to_string give what they give for the low 48 bits of m, a MacAddress that
\* compares unequal to m, and parse(to_string(m)) is that other value, not m.
C30_MacAbove48Bits ==
    /\ (layer = "mac" /\ op.name \in {"parse", "parse(to_string)"}
        /\ result.tag = "ok") =>
          result.val[1] = 0 /\ result.val[2] = 0
    /\ (layer = "mac" /\ op.name = "new") => result = Ok(buffer)
    /\ (layer = "mac" /\ view = "value" /\ Low48(buffer) # buffer) =>
          /\ op.name = "to_bytes" =>
                result = Ok(MacAddress_to_bytes(Low48(buffer)))
          /\ op.name = "to_string" =>
                result = Ok(MacAddress_to_string(Low48(buffer)))
          /\ op.name = "parse(to_string)" =>
                result = Ok(Low48(buffer))

\* 0xffff_0000_000a_00a5 came back from its text as 0x0000_0000_000a_00a5
C30_Witness ==
    /\ layer = "mac" /\ op.name = "parse(to_string)"
    /\ buffer = << 255, 255, 0, 0, 0, 10, 0, 165 >>
    /\ result = Ok(<< 0, 0, 0, 0, 0, 10, 0, 165 >>)

\* the 16-bit words of buf[0..hl], the word at offset 10 replaced by zero
ZeroedWords(buf, hl) ==
    [k \in 1..(hl \div 2) |-> IF k = 6 THEN 0 ELSE FromBe16(buf[2 * k - 1], buf[2 * k])]

\* the words added one by one, the carry folded after each addition
RECURSIVE FoldedSum(_, _)
FoldedSum(ws, sum) ==
    IF ws = << >> THEN sum
    ELSE LET s == sum + Head(ws)
         IN  FoldedSum(Tail(ws), IF s > 65535 THEN (s % 65536) + (s \div 65536) ELSE s)

StoredChecksums == {0, 1, 255, 256, 57005, 65534, 65535}

C27_SumStaysIn16Bits ==
    /\ result.tag = "scan" =>
          /\ result.val.sum >= 0 /\ result.val.sum <= 65535
          /\ result.val.sum = ChecksumLoop(buffer, 0, result.val.i, 0)
    /\ result.tag \in {"ok", "err"} => result = IPv4_verify_checksum(buffer)

\* the 30th word of a header of 0xFFFF words after 0x4FFF has been added and
\* folded: 0x4FFF + 0xFFFF = 0x14FFE folds back to 0x4FFF
C27_Witness ==
    /\ result.tag = "scan" /\ result.val.i = 60
    /\ op.arg = 65535 /\ buffer[59] = 255 /\ buffer[60] = 255
    /\ buffer[2] = 255 /\ buffer[3] = 255
    /\ result.val.sum = 20479

\* C25: for every buffer accepted by new_with_validation, payload(), key(),
\* src_addr(), dst_addr(), total_length() and verify_checksum() return Ok,
\* options() is exactly bytes[20..header_length] (empty when header_length is
\* 20), and the fixed header, the options and the payload are consecutive,
\* non-overlapping ranges that make up bytes[0..total_length], inside the
\* buffer.
C25_ValidatedViewAgrees ==
    (layer = "ipv4" /\ view = "validated") =>
        /\ op.name \in {"payload", "key", "src_addr", "dst_addr", "total_length",
                        "verify_checksum"} => IsOk(result)
        /\ 20 <= RawIhl /\ RawIhl <= RawTotalLength /\ RawTotalLength <= Len(buffer)
        /\ op.name = "options" =>
              /\ result = Ok(SubSeq(buffer, 21, RawIhl))
              /\ Len(result.val) = RawIhl - 20
              /\ RawIhl = 20 => result.val = << >>
              /\ SubSeq(buffer, 1, 20) \o result.val \o IPv4_payload(buffer).val
                   = SubSeq(buffer, 1, RawTotalLength)
        /\ op.name = "payload" =>
              /\ result.tag = "ok"
              /\ SubSeq(buffer, 1, 20) \o IPv4_options(buffer).val \o result.val
                   = SubSeq(buffer, 1, RawTotalLength)

\* options() on a validated buffer with four option octets and a payload
C25_Witness ==
    /\ layer = "ipv4" /\ view = "validated" /\ op.name = "options"
    /\ RawIhl = 24 /\ RawTotalLength > 24 /\ Len(buffer) > RawTotalLength
    /\ result = Ok(SubSeq(buffer, 21, 24))

\* the groups printed in lower-case hexadecimal, ":" between them
GroupsText(segments) ==
    StrJoin([k \in 1..Len(segments) |-> LowerHex(segments[k])], ":")

\* the text with the leftmost run of zero groups replaced by "::"
LeftmostCompressed(segments) ==
    LET zeros == { k \in 1..8 : segments[k] = 0 }
    IN  IF zeros = {} THEN GroupsText(segments)
        ELSE LET a == CHOOSE k \in zeros : \A j \in zeros : k <= j
                 r == FirstZeroRun(segments, 8)
             IN  GroupsText(SubSeq(segments, 1, a - 1)) \o << ":", ":" >>
                 \o GroupsText(SubSeq(segments, a + r, 8))

\* C28: to_string of an address that is not IPv4-mapped compresses the first
\* (leftmost) run of zero groups, even a run of one group followed by a longer
\* run, and prints every zero group after the following nonzero group as "0":
\* groups 1,0,1,0,0,0,0,1 give "1::1:0:0:0:0:1".
C28_LeftmostRunCompressed ==
    (layer = "ipv6_addr" /\ op.name = "to_string" /\ result.tag = "ok"
     /\ ~ipv6_is_ipv4_mapped(buffer)) =>
        /\ result.val = LeftmostCompressed(ipv6_to_segments(buffer))
        /\ ipv6_to_segments(buffer) = << 1, 0, 1, 0, 0, 0, 0, 1 >> =>
              result.val = << "1", ":", ":", "1", ":", "0", ":", "0", ":", "0",
                              ":", "0", ":", "1" >>

\* the run of one group compressed, the run of four after it printed
C28_Witness ==
    /\ layer = "ipv6_addr" /\ op.name = "to_string"
    /\ ipv6_to_segments(buffer) = << 1, 0, 1, 0, 0, 0, 0, 1 >>
    /\ result = Ok(<< "1", ":", ":", "1", ":", "0", ":", "0", ":", "0",
                      ":", "0", ":", "1" >>)

\* C22: in the Tap actor, while no device is stored (no file opened yet, or
\* none handed over yet), no read or write has been started, and a step of a
\* ReadMessage or WriteMessage leaves the slot unset and starts none; the
\* step that answers the message answers Err(NotFound, "Device not found").
C22_NoDeviceStep ==
    /\ buffer.files = 0 => buffer.device = << >>
    /\ buffer.device = << >> => buffer.io = 0 /\ ~LockHeld
    /\ (buffer.device = << >> /\ op'.name \in {"ReadMessage", "WriteMessage"}) =>
          /\ buffer'.device = << >>
          /\ buffer'.io = 0
          /\ op'.arg \in {"send", "handle", "reply"}
          /\ op'.arg = "reply" => result'.tag = "err" /\ result' = NotFound
          /\ op'.arg # "reply" => result' = result

C22_NoDeviceNotFound == [][C22_NoDeviceStep]_vars

\* a WriteMessage answered NotFound, no file having been opened
C22_Witness ==
    /\ layer = "tap" /\ op.name = "WriteMessage" /\ op.arg = "reply"
    /\ buffer.device = << >> /\ buffer.files = 0 /\ buffer.sent = 2
    /\ buffer.mailbox = << >> /\ buffer.futures = {}
    /\ result = NotFound

\* the UpdateDevice messages in a mailbox
Updates(mailbox) == SelectSeq(mailbox, LAMBDA m : m.type = "UpdateDevice")

\* C23: the step that answers an OpenTap whose opener failed answers that
\* error, sends no UpdateDevice and leaves the slot as it is; the step that
\* answers an OpenTap whose opener succeeded appends exactly one UpdateDevice
\* to the mailbox and answers Ok; the step that handles an UpdateDevice sets
\* the slot to its file; no step resets a set slot, and only the handling of
\* an UpdateDevice changes the slot.
C23_OpenStep ==
    /\ (op'.name = "OpenTap" /\ op'.arg = "reply") =>
          \E f \in buffer.futures \ buffer'.futures :
              /\ f.kind = "OpenTap"
              /\ buffer'.device = buffer.device
              /\ IF f.opener = "MockFailingDevice"
                 THEN /\ result'.tag = "err"
                      /\ result'.val = "Mocked device open failure"
                      /\ buffer'.mailbox = buffer.mailbox
                 ELSE /\ result'.tag = "ok"
                      /\ buffer'.mailbox = Append(buffer.mailbox, UpdateDevice(f.id))
                      /\ Len(Updates(buffer'.mailbox)) = Len(Updates(buffer.mailbox)) + 1
    /\ (op'.name = "UpdateDevice" /\ op'.arg = "handle") =>
          /\ buffer'.device = << Head(buffer.mailbox).device >>
          /\ buffer'.device # << >>
    /\ buffer.device # << >> => buffer'.device # << >>
    /\ buffer'.device # buffer.device =>
          op'.name = "UpdateDevice" /\ op'.arg = "handle"
    /\ Len(Updates(buffer'.mailbox)) > Len(Updates(buffer.mailbox)) =>
          op'.name = "OpenTap" /\ op'.arg = "reply" /\ result'.tag = "ok"

C23_OpenThenUpdate == [][C23_OpenStep]_vars

\* the UpdateDevice of the second message handled, the first message having
\* opened nothing
C23_Witness ==
    /\ layer = "tap" /\ op.name = "UpdateDevice" /\ op.arg = "handle"
    /\ buffer.device = << 2 >> /\ buffer.files = 1
    /\ buffer.mailbox = << >>

====
